---------------------------- MODULE Spec2Model ----------------------------
(***************************************************************************)
(* pinspect: the socket-ownership correlation subsystem.                   *)
(*                                                                         *)
(*   enumerate_fds         (src/src/proc_fd.c)  descriptor enumerator      *)
(*   parse_net_file        (src/src/net.c)      connection table reader    *)
(*   find_process_sockets  (src/src/net.c)      socket correlator          *)
(*   parse_hex_addr, format_ip_port (src/src/net.c)  address codec         *)
(*   enumerate_threads     (src/src/proc_task.c) thread enumerator         *)
(*                                                                         *)
(* Text (symlink targets, directory entry names, table lines) is a         *)
(* sequence of one-character strings, and the sscanf conversions of the    *)
(* code are scanners over such sequences.                                  *)
(***************************************************************************)
EXTENDS Integers, Sequences, FiniteSets, TLC

(***************************************************************************)
(* Bounds of the model.                                                    *)
(***************************************************************************)
\* longest descriptor directory listing
MaxDirEntries == 3
\* most rows after the header line in a connection table
MaxRows == 1
\* most rows after the header line of the file a direct parse_net_file call reads
MaxFileRows == 3

(***************************************************************************)
(* Program constants.                                                      *)
(***************************************************************************)
INITIAL_FD_CAPACITY == 64
INITIAL_SOCKET_CAPACITY == 16
INITIAL_THREAD_CAPACITY == 32
PROC_NAME_MAX == 16

(***************************************************************************)
(* Characters and the C library scanners the code relies on.               *)
(***************************************************************************)
Digits == <<"0", "1", "2", "3", "4", "5", "6", "7", "8", "9">>

HexDigits == <<"0", "1", "2", "3", "4", "5", "6", "7", "8", "9",
               "A", "B", "C", "D", "E", "F">>

IsDigit(c) == \E i \in 1..10 : Digits[i] = c

DigitVal(c) == (CHOOSE i \in 1..10 : Digits[i] = c) - 1

IsSpace(c) == c \in {" ", "\t", "\n"}

\* first position >= i of s that holds no white space (Len(s)+1 at the end)
RECURSIVE SkipSpace(_, _)
SkipSpace(s, i) ==
    IF i <= Len(s) /\ IsSpace(s[i]) THEN SkipSpace(s, i + 1) ELSE i

\* a decimal conversion without its leading white space: an optional sign,
\* then at least one digit; [ok, val, next]
RECURSIVE ScanDigits(_, _, _)
ScanDigits(s, i, acc) ==
    IF i <= Len(s) /\ IsDigit(s[i])
    THEN ScanDigits(s, i + 1, acc * 10 + DigitVal(s[i]))
    ELSE [val |-> acc, next |-> i]

\* %u, %lu, %d of sscanf at position i: white space is skipped, a sign is
\* accepted, the longest run of digits is taken.  A '-' negates the value
\* (for the unsigned conversions: modulo 2^width, kept here as the negative).
ScanDec(s, i) ==
    LET j == SkipSpace(s, i)
        signed == j <= Len(s) /\ s[j] \in {"+", "-"}
        k == IF signed THEN j + 1 ELSE j
        r == ScanDigits(s, k, 0)
    IN  IF r.next = k
        THEN [ok |-> FALSE, eof |-> j > Len(s), val |-> 0, next |-> j]
        ELSE [ok |-> TRUE, eof |-> FALSE,
              val |-> IF signed /\ s[j] = "-" THEN 0 - r.val ELSE r.val,
              next |-> r.next]

\* the literal characters lit of a format matched at position i of s
RECURSIVE MatchLiteral(_, _, _, _)
MatchLiteral(s, i, lit, k) ==
    IF k > Len(lit) THEN [ok |-> TRUE, next |-> i]
    ELSE IF i <= Len(s) /\ s[i] = lit[k] THEN MatchLiteral(s, i + 1, lit, k + 1)
    ELSE [ok |-> FALSE, next |-> i]

HexLower == <<"0", "1", "2", "3", "4", "5", "6", "7", "8", "9",
              "a", "b", "c", "d", "e", "f">>

IsHexDigit(c) == \E i \in 1..16 : HexDigits[i] = c \/ HexLower[i] = c

HexVal(c) == (CHOOSE i \in 1..16 : HexDigits[i] = c \/ HexLower[i] = c) - 1

RECURSIVE ScanHexDigits(_, _, _)
ScanHexDigits(s, i, acc) ==
    IF i <= Len(s) /\ IsHexDigit(s[i])
    THEN ScanHexDigits(s, i + 1, Append(acc, HexVal(s[i])))
    ELSE [digits |-> acc, next |-> i]

\* %x, %X of sscanf at position i: white space is skipped, a sign and a
\* 0x prefix are accepted, the longest run of hex digits is taken;
\* digits are the values of the digits read, most significant first
ScanHex(s, i) ==
    LET j == SkipSpace(s, i)
        signed == j <= Len(s) /\ s[j] \in {"+", "-"}
        k == IF signed THEN j + 1 ELSE j
        prefixed == /\ k + 2 <= Len(s)
                    /\ s[k] = "0"
                    /\ s[k + 1] \in {"x", "X"}
                    /\ IsHexDigit(s[k + 2])
        b == IF prefixed THEN k + 2 ELSE k
        r == ScanHexDigits(s, b, <<>>)
    IN  IF r.next = b
        THEN [ok |-> FALSE, digits |-> <<>>, next |-> j]
        ELSE [ok |-> TRUE, digits |-> r.digits, next |-> r.next]

\* %Ns of sscanf: white space is skipped, then at most w characters up to
\* the next white space are taken; fails at the end of the input
RECURSIVE ScanWord(_, _, _)
ScanWord(s, i, w) ==
    IF w > 0 /\ i <= Len(s) /\ ~IsSpace(s[i]) THEN ScanWord(s, i + 1, w - 1) ELSE i

ScanStr(s, i, w) ==
    LET j == SkipSpace(s, i)
        e == ScanWord(s, j, w)
    IN  IF e = j
        THEN [ok |-> FALSE, str |-> <<>>, next |-> j]
        ELSE [ok |-> TRUE, str |-> SubSeq(s, j, e - 1), next |-> e]

\* the number a short run of hex digits denotes
RECURSIVE HexNum(_, _)
HexNum(digits, acc) ==
    IF digits = <<>> THEN acc ELSE HexNum(Tail(digits), acc * 16 + Head(digits))

\* the last n digits of a run, zero-filled on the left: the value modulo 16^n
LowDigits(digits, n) ==
    [i \in 1..n |-> IF Len(digits) - n + i >= 1 THEN digits[Len(digits) - n + i] ELSE 0]

\* an unsigned int as its four bytes, most significant first
Word32(digits) ==
    LET d == LowDigits(digits, 8)
    IN  [i \in 1..4 |-> d[2 * i - 1] * 16 + d[2 * i]]

\* htonl on a little-endian host: the four bytes reversed
htonl(w) == [i \in 1..4 |-> w[5 - i]]

\* (uint16_t) of an unsigned int
U16(digits) == HexNum(LowDigits(digits, 4), 0)

(***************************************************************************)
(* sscanf.  A format is a sequence of directives:                          *)
(*   [kind |-> "lit", lit |-> <<...>>]          ordinary characters        *)
(*   [kind |-> "dec", field |-> f]              %u %lu %d                  *)
(*   [kind |-> "hex", field |-> f]              %x %X                      *)
(*   [kind |-> "str", field |-> f, width |-> w] %ws (w = 0: no width)      *)
(*   [kind |-> "chr", field |-> f]              %c                         *)
(*   [kind |-> "ws"]                            white space before a %c    *)
(* with field = "*" for a suppressed assignment.  White space in a format  *)
(* only skips white space, which the three conversions do themselves.      *)
(* The scan stops at the first directive that fails; matched counts the    *)
(* assignments made until then (a return of EOF counts as none: every      *)
(* caller compares the count with the number of its conversions).          *)
(***************************************************************************)
\* e bound to x in F(x), e evaluated once
Let(e, F(_)) == CHOOSE y \in { F(x) : x \in {e} } : TRUE

Lit(chars) == [kind |-> "lit", lit |-> chars]

Conv(kind, field) == [kind |-> kind, field |-> field, width |-> 0]

Str(field, width) == [kind |-> "str", field |-> field, width |-> width]

\* the scan state after a conversion that read value v up to position next
Assigned(st, d, v, next) ==
    IF d.field = "*"
    THEN [st EXCEPT !.pos = next]
    ELSE [st EXCEPT !.pos = next, !.matched = st.matched + 1,
                    !.vals = [f \in (DOMAIN st.vals) \cup {d.field} |->
                                IF f = d.field THEN v ELSE st.vals[f]]]

ScanStep(s, d, st) ==
    IF d.kind = "lit"
    THEN Let(MatchLiteral(s, st.pos, d.lit, 1),
             LAMBDA m : IF m.ok THEN [st EXCEPT !.pos = m.next]
                        ELSE [st EXCEPT !.failed = TRUE])
    ELSE IF d.kind = "dec"
    THEN Let(ScanDec(s, st.pos),
             LAMBDA r : IF r.ok THEN Assigned(st, d, r.val, r.next)
                        ELSE [st EXCEPT !.failed = TRUE])
    ELSE IF d.kind = "hex"
    THEN Let(ScanHex(s, st.pos),
             LAMBDA r : IF r.ok THEN Assigned(st, d, r.digits, r.next)
                        ELSE [st EXCEPT !.failed = TRUE])
    ELSE IF d.kind = "ws"
    THEN [st EXCEPT !.pos = SkipSpace(s, st.pos)]
    ELSE IF d.kind = "chr"
    THEN IF st.pos <= Len(s) THEN Assigned(st, d, s[st.pos], st.pos + 1)
         ELSE [st EXCEPT !.failed = TRUE]
    ELSE Let(ScanStr(s, st.pos, IF d.width = 0 THEN Len(s) ELSE d.width),
             LAMBDA r : IF r.ok THEN Assigned(st, d, r.str, r.next)
                        ELSE [st EXCEPT !.failed = TRUE])

RECURSIVE ScanFrom(_, _, _, _)
ScanFrom(s, fmt, k, st) ==
    IF k > Len(fmt) THEN st
    ELSE Let(ScanStep(s, fmt[k], st),
             LAMBDA n : IF n.failed THEN n ELSE ScanFrom(s, fmt, k + 1, n))

\* [matched, vals]: the number of assignments and the values assigned
sscanf(s, fmt) ==
    ScanFrom(s, fmt, 1, [pos |-> 1, matched |-> 0, failed |-> FALSE,
                         vals |-> [f \in {} |-> 0]])

\* atoi
Atoi(s) == ScanDec(s, 1).val

(***************************************************************************)
(* proc_fd.c                                                               *)
(***************************************************************************)
\* is_numeric looking at the first character only
is_numeric_first_only(name) ==
    /\ Len(name) > 0
    /\ name # <<".">>
    /\ name # <<".", ".">>
    /\ IsDigit(name[1])

\* is_numeric: non-empty, not "." or "..", every character a digit
is_numeric(name) ==
    /\ Len(name) > 0
    /\ name # <<".">>
    /\ name # <<".", ".">>
    /\ \A i \in 1..Len(name) : IsDigit(name[i])

\* "socket:[%lu]"
SocketFormat ==
    <<Lit(<<"s", "o", "c", "k", "e", "t", ":", "[">>), Conv("dec", "inode"), Lit(<<"]">>)>>

\* parse_socket_inode: sscanf(target, "socket:[%lu]", inode) == 1.
\* The count is 1 as soon as %lu has converted: the closing bracket of the
\* format and whatever follows it do not change it.
parse_socket_inode(target) ==
    Let(sscanf(target, SocketFormat),
        LAMBDA r : IF r.matched = 1
                   THEN [matched |-> TRUE, inode |-> r.vals["inode"]]
                   ELSE [matched |-> FALSE, inode |-> 0])

\* parse_fd_entry: the fd_entry_t for a directory entry and its target
parse_fd_entry(name, target) ==
    Let(parse_socket_inode(target),
        LAMBDA p : [fd |-> Atoi(name),
                    target |-> target,
                    is_socket |-> p.matched,
                    socket_inode |-> IF p.matched THEN p.inode ELSE 0])

(***************************************************************************)
(* net.c: the address codec and the format of a table line                 *)
(***************************************************************************)
\* "%x:%x"
HexAddrFormat == <<Conv("hex", "ip_hex"), Lit(<<":">>), Conv("hex", "port_hex")>>

\* parse_hex_addr: sscanf(hex, "%x:%x", &ip_hex, &port_hex) == 2, then
\* *ip = htonl(ip_hex) and *port = (uint16_t)port_hex
parse_hex_addr(hex) ==
    Let(sscanf(hex, HexAddrFormat),
        LAMBDA r : IF r.matched = 2
                   THEN [rc |-> 0, ip |-> htonl(Word32(r.vals["ip_hex"])),
                         port |-> U16(r.vals["port_hex"])]
                   ELSE [rc |-> -1, ip |-> <<>>, port |-> 0])

\* inode_in_set: linear search of set[0 .. set_size-1]
inode_in_set(inode, set, set_size) ==
    /\ set_size # 0
    /\ \E i \in 1..set_size : set[i] = inode

\* " %u: %63s %63s %X %*s %*s %*s %u %*d %lu"
NetLineFormat ==
    <<Conv("dec", "slot"), Lit(<<":">>), Str("local_addr", 63), Str("remote_addr", 63),
      Conv("hex", "state"), Str("*", 0), Str("*", 0), Str("*", 0),
      Conv("dec", "uid"), Conv("dec", "*"), Conv("dec", "inode")>>

(***************************************************************************)
(* Pointers to heap arrays: NULL, or an allocated array with its elements. *)
(***************************************************************************)
NULL == [kind |-> "null", elems |-> <<>>]

Heap(elems) == [kind |-> "heap", elems |-> elems]

\* an object the caller declared and did not initialise
Indeterminate == [kind |-> "indeterminate", elems |-> <<>>]

Int32(n) == [kind |-> "int", val |-> n]

\* the events of the heap: malloc returning the buffer called name, and
\* free(p) for the pointer p to it; free(NULL) does nothing
Malloc(name) == << <<"malloc", name>> >>

\* free(p) left out
FreeForgotten(p, name) == <<>>

Free(p, name) == IF p = NULL THEN <<>> ELSE << <<"free", name>> >>

\* a callee handed back the pointer p: its buffer, if any, is now the caller's
Allocated(p, name) == IF p = NULL THEN <<>> ELSE Malloc(name)

\* events told by the variable that held the pointer, for the buffer it held
Held(events, variable, name) ==
    [i \in DOMAIN events |->
       IF events[i][2] = variable THEN <<events[i][1], name>> ELSE events[i]]

(***************************************************************************)
(* net.c: parse_net_file                                                   *)
(*                                                                         *)
(* file  = [openable, lines]: whether fopen succeeds, and the lines fgets  *)
(*         returns in order (the header line first)                        *)
(* oom   = the allocations that fail, a subset of {"malloc", "grow"}       *)
(* junk  = [addr, state]: what an int converted from the address of the    *)
(*         local buffer remote_addr holds, and what the bytes of a field   *)
(*         of the malloc'ed array hold before anything is stored in them   *)
(***************************************************************************)
\* lines 271-278: the element stored for a line with the fields f and the
\* decoded addresses loc and rem
StoreResult(is_tcp, f, loc, rem, junk) ==
    [is_tcp |-> is_tcp,
     local_addr |-> loc.ip,
     local_port |-> loc.port,
     remote_addr |-> junk.addr,       \* line 275 stores the char array, not remote_ip
     remote_port |-> rem.port,
     state |-> junk.state,            \* no line stores the state read
     inode |-> f["inode"]]

\* lines 249-278 for one line: the element to store, or <<>> when the line
\* is skipped
ParseLine(line, is_tcp, target_inodes, inode_count, junk) ==
    Let(sscanf(line, NetLineFormat),
        LAMBDA r :
          IF r.matched < 6 THEN <<>>
          ELSE IF ~inode_in_set(r.vals["inode"], target_inodes, inode_count) THEN <<>>
          ELSE Let(<<parse_hex_addr(r.vals["local_addr"]),
                     parse_hex_addr(r.vals["remote_addr"])>>,
                   LAMBDA a : IF a[1].rc # 0 \/ a[2].rc # 0 THEN <<>>
                              ELSE <<StoreResult(is_tcp, r.vals, a[1], a[2], junk)>>))

\* ParseLines leaving the loop at the first line that stores nothing
RECURSIVE ParseLinesBreak(_, _, _, _, _, _, _, _, _)
ParseLinesBreak(lines, i, is_tcp, target_inodes, inode_count, array, capacity, oom, junk) ==
    IF i > Len(lines)
    THEN [rc |-> 0, array |-> array, capacity |-> capacity]
    ELSE Let(array \o ParseLine(lines[i], is_tcp, target_inodes, inode_count, junk),
             LAMBDA stored :
               IF Len(stored) = Len(array)
               THEN [rc |-> 0, array |-> array, capacity |-> capacity]
               ELSE ParseLinesBreak(lines, i + 1, is_tcp, target_inodes, inode_count,
                                    stored, capacity, oom, junk))

\* lines 236-293: the loop over the lines after the header, from line i on
\* with array[0 .. count-1] stored.  rc = -1 when the growing realloc failed.
RECURSIVE ParseLines(_, _, _, _, _, _, _, _, _)
ParseLines(lines, i, is_tcp, target_inodes, inode_count, array, capacity, oom, junk) ==
    IF i > Len(lines)
    THEN [rc |-> 0, array |-> array, capacity |-> capacity]
    ELSE Let(array \o ParseLine(lines[i], is_tcp, target_inodes, inode_count, junk),
             LAMBDA stored :
               IF Len(stored) = Len(array) \/ Len(stored) # capacity
               THEN ParseLines(lines, i + 1, is_tcp, target_inodes, inode_count,
                               stored, capacity, oom, junk)
               ELSE IF "grow" \in oom
               THEN [rc |-> -1, array |-> <<>>, capacity |-> capacity * 2]
               ELSE ParseLines(lines, i + 1, is_tcp, target_inodes, inode_count,
                               stored, capacity * 2, oom, junk))

\* [rc, results, result_count, opened, oom]: the return value, *results,
\* *result_count, whether fopen was called on the path, and whether the
\* failure is an allocation's
ParseResult(rc, results, result_count, opened) ==
    [rc |-> rc, results |-> results, result_count |-> result_count, opened |-> opened,
     oom |-> FALSE]

\* a return of -1 after malloc or realloc returned NULL
ParseNoMemory == [ParseResult(-1, NULL, 0, TRUE) EXCEPT !.oom = TRUE]

\* line 312: the count stored in *result_count for count elements found
ReportedCount(n) == 0

\* parse_net_file with the file opened before the target set is looked at
parse_net_file_open_first(file, is_tcp, target_inodes, inode_count, oom, junk) ==
    IF ~file.openable THEN ParseResult(-1, NULL, 0, TRUE)
    ELSE IF target_inodes = NULL \/ inode_count = 0 THEN ParseResult(0, NULL, 0, TRUE)
    ELSE IF "malloc" \in oom THEN ParseNoMemory
    ELSE IF file.lines = <<>> THEN ParseResult(0, NULL, 0, TRUE)
    ELSE Let(ParseLines(file.lines, 2, is_tcp, target_inodes.elems, inode_count,
                        <<>>, INITIAL_SOCKET_CAPACITY, oom, junk),
             LAMBDA loop :
               IF loop.rc # 0 THEN ParseNoMemory
               ELSE IF Len(loop.array) = 0 THEN ParseResult(0, NULL, 0, TRUE)
               ELSE ParseResult(0, Heap(loop.array), ReportedCount(Len(loop.array)), TRUE))

\* lines 199-314
parse_net_file(file, is_tcp, target_inodes, inode_count, oom, junk) ==
    IF target_inodes = NULL \/ inode_count = 0 THEN ParseResult(0, NULL, 0, FALSE)
    ELSE IF ~file.openable THEN ParseResult(-1, NULL, 0, TRUE)
    ELSE IF "malloc" \in oom THEN ParseNoMemory
    ELSE IF file.lines = <<>> THEN ParseResult(0, NULL, 0, TRUE)
    ELSE Let(ParseLines(file.lines, 2, is_tcp, target_inodes.elems, inode_count,
                        <<>>, INITIAL_SOCKET_CAPACITY, oom, junk),
             LAMBDA loop :
               IF loop.rc # 0 THEN ParseNoMemory
               ELSE IF Len(loop.array) = 0 THEN ParseResult(0, NULL, 0, TRUE)
               ELSE ParseResult(0, Heap(loop.array), ReportedCount(Len(loop.array)), TRUE))

(***************************************************************************)
(* The environment: the kernel's descriptor directory of the inspected     *)
(* process and the two connection tables.                                  *)
(***************************************************************************)
\* symlink targets
TargetSocket5 ==
    <<"s", "o", "c", "k", "e", "t", ":", "[", "5", "]">>
TargetSocket7 ==
    <<"s", "o", "c", "k", "e", "t", ":", "[", "7", "]">>
TargetPipe5 ==
    <<"p", "i", "p", "e", ":", "[", "5", "]">>
TargetDevNull ==
    <<"/", "d", "e", "v", "/", "n", "u", "l", "l">>

\* directory entries as readdir lists them, each with what readlink gives
DirEntryPool ==
    { [name |-> <<".">>, target |-> <<>>],
      [name |-> <<"3">>, target |-> TargetSocket5],
      [name |-> <<"4">>, target |-> TargetDevNull],
      [name |-> <<"7">>, target |-> TargetSocket7],
      [name |-> <<"8">>, target |-> TargetPipe5] }

\* the sequences of at most n distinct elements of S
InjSeqs(S, n) ==
    UNION { { q \in [1..k -> S] : \A i, j \in 1..k : i # j => q[i] # q[j] } : k \in 0..n }

\* the sequences of at most n elements of S
SeqsUpTo(S, n) == UNION { [1..k -> S] : k \in 0..n }

DirListings == InjSeqs(DirEntryPool, MaxDirEntries)

\* table text
HeaderLine ==
    <<" ", " ", "s", "l", " ", " ", "l", "o", "c", "a", "l", "_", "a",
    "d", "d", "r", "e", "s", "s", " ", "r", "e", "m", "_", "a", "d", "d",
    "r", "e", "s", "s", " ", " ", " ", "s", "t", " ", " ", "u", "i", "d",
    " ", " ", "t", "i", "m", "e", "o", "u", "t", " ", "i", "n", "o", "d",
    "e">>
Addr_127_0_0_1_8080 ==
    <<"0", "1", "0", "0", "0", "0", "7", "F", ":", "1", "F", "9", "0">>
Addr_10_0_0_2_53 ==
    <<"0", "2", "0", "0", "0", "0", "0", "A", ":", "0", "0", "3", "5">>
Addr_Any_0 ==
    <<"0", "0", "0", "0", "0", "0", "0", "0", ":", "0", "0", "0", "0">>
Queues ==
    <<"0", "0", "0", "0", "0", "0", "0", "0", ":", "0", "0", "0", "0",
    "0", "0", "0", "0", " ", "0", "0", ":", "0", "0", "0", "0", "0", "0",
    "0", "0", " ", "0", "0", "0", "0", "0", "0", "0", "0">>

\* a well-formed row: sl, local_address, rem_address, st, the queue and
\* timer columns, uid, timeout, inode, and the first of the trailing columns
Row(sl, local, remote, st, uid, inode) ==
    <<" ", " ">> \o sl \o <<":", " ">> \o local \o <<" ">> \o remote \o <<" ">>
    \o st \o <<" ">> \o Queues \o <<" ", " ">> \o uid \o <<" ", " ", "0", " ">>
    \o inode \o <<" ", "1">>

RowTcp5 == Row(<<"0">>, Addr_127_0_0_1_8080, Addr_Any_0, <<"0", "A">>,
               <<"1", "0", "0", "0">>, <<"5">>)

RowTcp9 == Row(<<"1">>, Addr_10_0_0_2_53, Addr_127_0_0_1_8080, <<"0", "1">>,
               <<"0">>, <<"9">>)

RowUdp7 == Row(<<"0">>, Addr_10_0_0_2_53, Addr_Any_0, <<"0", "7">>,
               <<"1", "0", "0", "0">>, <<"7">>)

RowUdp9 == Row(<<"1">>, Addr_Any_0, Addr_Any_0, <<"0", "7">>, <<"0">>, <<"9">>)

\* a table: one that fopen cannot open, or the header and its rows
Tables(rows) ==
    { [openable |-> FALSE, lines |-> <<>>] } \cup
    { [openable |-> TRUE, lines |-> <<HeaderLine>> \o r] : r \in SeqsUpTo(rows, MaxRows) }

TcpTables == Tables({RowTcp5, RowTcp9})

UdpTables == Tables({RowUdp7, RowUdp9})

\* what the indeterminate fields of a stored element may hold
JunkValues ==
    { [addr |-> <<0, 0, 0, 0>>, state |-> 0],
      [addr |-> <<222, 173, 190, 239>>, state |-> 10] }

(***************************************************************************)
(* State.                                                                  *)
(***************************************************************************)
VARIABLES
    dirStatus,    \* what opendir("/proc/<pid>/fd") meets: "ok", "ENOENT", "EACCES"
    dirEntries,   \* the entries readdir returns, in order
    tcpFile,      \* /proc/net/tcp
    udpFile,      \* /proc/net/udp
    pc,           \* where the call is
    sockets,      \* the caller's object *sockets of find_process_sockets
    count,        \* the caller's object *count of find_process_sockets
    ret,          \* the value find_process_sockets returned
    errno,
    count_param,  \* find_process_sockets' parameter count: still the caller's
                  \* pointer, or overwritten through &count (line 354)
    fd_count,     \* find_process_sockets' local fd_count
    e_entries,    \* enumerate_fds: the object its parameter entries points to
    e_count,      \* enumerate_fds: the object its parameter count points to
    e_rc,         \* enumerate_fds: its return value
    array,        \* enumerate_fds: the elements stored in array
    capacity,     \* enumerate_fds: capacity
    dirpos,       \* enumerate_fds: the next entry readdir returns
    unresolved,   \* the positions of the entries readlink no longer found
    io,           \* the file system calls made so far, in order
    alloc_failed, \* whether malloc or realloc has returned NULL
    mem,          \* the buffers allocated and freed so far, in order
    p_pc,         \* a direct call of parse_net_file: where it is,
    p_file,       \*   the file at its path,
    p_is_tcp,     \*   its arguments is_tcp,
    p_targets,    \*   target_inodes (with its inode_count elements),
    p_oom,        \*   the allocations that fail in it,
    p_result,     \*   and what it returned and stored
    f_pc,         \* a direct call of one of the small functions: where it is,
    f_in,         \*   the function called and its arguments,
    f_out         \*   and what it returned and stored

vars == <<dirStatus, dirEntries, tcpFile, udpFile, pc, sockets, count, ret, errno,
          count_param, fd_count, e_entries, e_count, e_rc, array, capacity, dirpos,
          unresolved, io, alloc_failed, mem, p_pc, p_file, p_is_tcp, p_targets, p_oom, p_result,
          f_pc, f_in, f_out>>

callVars == <<dirStatus, dirEntries, tcpFile, udpFile, pc, sockets, count, ret, errno,
              count_param, fd_count, e_entries, e_count, e_rc, array, capacity, dirpos,
              unresolved, io, alloc_failed, mem>>

parseVars == <<p_pc, p_file, p_is_tcp, p_targets, p_oom, p_result>>

fnVars == <<f_pc, f_in, f_out>>

env == <<dirStatus, dirEntries, tcpFile, udpFile>>

enumVars == <<e_entries, e_count, e_rc, array, capacity, dirpos, unresolved>>

\* num_fds of enumerate_fds: the number of elements stored
num_fds == Len(array)

(***************************************************************************)
(* find_process_sockets(pid, &sockets, &count) on a process whose          *)
(* descriptor directory and connection tables are the environment's.       *)
(***************************************************************************)
\* no direct call of parse_net_file
ParseIdle ==
    /\ p_pc = "none"
    /\ p_file = [openable |-> FALSE, lines |-> <<>>]
    /\ p_is_tcp = FALSE
    /\ p_targets = NULL
    /\ p_oom = {}
    /\ p_result = ParseResult(0, NULL, 0, FALSE)

\* the call frame of find_process_sockets before the call
CallIdle(at) ==
    /\ pc = at
    /\ sockets = Indeterminate
    /\ count = Indeterminate
    /\ ret = 0
    /\ errno = "0"
    /\ count_param = "caller"
    /\ fd_count = 0
    /\ e_entries = Indeterminate
    /\ e_count = Indeterminate
    /\ e_rc = 0
    /\ array = <<>>
    /\ capacity = 0
    /\ dirpos = 0
    /\ unresolved = {}
    /\ io = <<>>
    /\ alloc_failed = FALSE
    /\ mem = <<>>

\* no direct call of a small function
FnIdle ==
    /\ f_pc = "none"
    /\ f_in = [fn |-> "none"]
    /\ f_out = [fn |-> "none"]

Init ==
    /\ dirStatus \in {"ok", "ENOENT", "EACCES"}
    /\ dirEntries \in DirListings
    /\ dirStatus # "ok" => dirEntries = <<>>
    /\ tcpFile \in TcpTables
    /\ udpFile \in UdpTables
    /\ CallIdle("call")
    /\ ParseIdle
    /\ FnIdle

\* InitOutputs without lines 347-348: the caller's objects are left as found
InitOutputsMissing == [sockets |-> Indeterminate, count |-> Indeterminate]

\* lines 346-354: the outputs and the locals are initialised, enumerate_fds
\* is called with &fds and &count
InitOutputs == [sockets |-> NULL, count |-> Int32(0)]

Call ==
    /\ pc = "call"
    /\ sockets' = InitOutputs.sockets
    /\ count' = InitOutputs.count
    /\ fd_count' = 0
    /\ pc' = "enumerate"
    /\ UNCHANGED <<env, ret, errno, count_param, enumVars, io, alloc_failed, mem,
                   parseVars, fnVars>>

(***************************************************************************)
(* proc_fd.c: enumerate_fds                                                *)
(***************************************************************************)
\* EnumerateOpen without lines 234-235: the outputs are left as found
EnumerateOpenNoClear ==
    /\ pc = "enumerate"
    /\ \/ /\ dirStatus # "ok"
          /\ errno' = dirStatus
          /\ e_rc' = -1
          /\ pc' = "correlate"
          /\ io' = Append(io, "opendir")
          /\ UNCHANGED <<array, capacity, dirpos, alloc_failed, mem>>
       \/ /\ dirStatus = "ok"
          /\ \E malloc_ok \in BOOLEAN :
               IF malloc_ok
               THEN /\ array' = <<>>
                    /\ capacity' = INITIAL_FD_CAPACITY
                    /\ dirpos' = 1
                    /\ pc' = "readdir"
                    /\ io' = Append(io, "opendir")
                    /\ mem' = mem \o Malloc("fds")
                    /\ UNCHANGED <<errno, e_rc, alloc_failed>>
               ELSE /\ errno' = "ENOMEM"
                    /\ e_rc' = -1
                    /\ pc' = "correlate"
                    /\ io' = io \o <<"opendir", "closedir">>
                    /\ alloc_failed' = TRUE
                    /\ UNCHANGED <<array, capacity, dirpos, mem>>
    /\ UNCHANGED <<env, sockets, count, ret, count_param, fd_count, unresolved,
                   e_entries, e_count, parseVars, fnVars>>

\* lines 234-255: the outputs are cleared, the directory is opened and the
\* initial array allocated
EnumerateOpen ==
    /\ pc = "enumerate"
    /\ e_entries' = NULL
    /\ e_count' = Int32(0)
    /\ \/ /\ dirStatus # "ok"
          /\ errno' = dirStatus
          /\ e_rc' = -1
          /\ pc' = "correlate"
          /\ io' = Append(io, "opendir")
          /\ UNCHANGED <<array, capacity, dirpos, alloc_failed, mem>>
       \/ /\ dirStatus = "ok"
          /\ \E malloc_ok \in BOOLEAN :
               IF malloc_ok
               THEN /\ array' = <<>>
                    /\ capacity' = INITIAL_FD_CAPACITY
                    /\ dirpos' = 1
                    /\ pc' = "readdir"
                    /\ io' = Append(io, "opendir")
                    /\ mem' = mem \o Malloc("fds")
                    /\ UNCHANGED <<errno, e_rc, alloc_failed>>
               ELSE /\ errno' = "ENOMEM"
                    /\ e_rc' = -1
                    /\ pc' = "correlate"
                    /\ io' = io \o <<"opendir", "closedir">>
                    /\ alloc_failed' = TRUE
                    /\ UNCHANGED <<array, capacity, dirpos, mem>>
    /\ UNCHANGED <<env, sockets, count, ret, count_param, fd_count, unresolved,
                   parseVars, fnVars>>

\* EnumerateReaddir returning -1 when readlink fails instead of going on
EnumerateReaddirAborts ==
    /\ pc = "readdir"
    /\ dirpos <= Len(dirEntries)
    /\ LET entry == dirEntries[dirpos]
       IN  \E resolves \in BOOLEAN :
             IF ~is_numeric(entry.name)
             THEN /\ dirpos' = dirpos + 1
                  /\ io' = Append(io, "readdir")
                  /\ UNCHANGED <<pc, errno, e_rc, array, capacity, alloc_failed,
                                 unresolved, mem>>
             ELSE IF ~resolves
             THEN /\ errno' = "ENOENT"
                  /\ e_rc' = -1
                  /\ pc' = "correlate"
                  /\ array' = <<>>
                  /\ unresolved' = unresolved \cup {dirpos}
                  /\ io' = io \o <<"readdir", "readlink", "closedir">>
                  /\ mem' = mem \o Free(Heap(array), "fds")
                  /\ UNCHANGED <<dirpos, capacity, alloc_failed>>
             ELSE /\ array' = Append(array, parse_fd_entry(entry.name, entry.target))
                  /\ dirpos' = dirpos + 1
                  /\ io' = io \o <<"readdir", "readlink">>
                  /\ UNCHANGED <<pc, errno, e_rc, capacity, alloc_failed, unresolved, mem>>
    /\ UNCHANGED <<env, sockets, count, ret, count_param, fd_count, e_entries, e_count,
                   parseVars, fnVars>>

\* lines 258-290: one iteration of the readdir loop.  resolves says whether
\* readlink still finds the descriptor (it may have closed since readdir
\* listed it); realloc_ok whether the growing realloc succeeds.
EnumerateReaddir ==
    /\ pc = "readdir"
    /\ dirpos <= Len(dirEntries)
    /\ LET entry == dirEntries[dirpos]
       IN  \E resolves, realloc_ok \in BOOLEAN :
             IF ~is_numeric(entry.name)
             THEN /\ dirpos' = dirpos + 1
                  /\ io' = Append(io, "readdir")
                  /\ UNCHANGED <<pc, errno, e_rc, array, capacity, alloc_failed,
                                 unresolved, mem>>
             ELSE IF ~resolves
             THEN /\ dirpos' = dirpos + 1
                  /\ unresolved' = unresolved \cup {dirpos}
                  /\ io' = io \o <<"readdir", "readlink">>
                  /\ UNCHANGED <<pc, errno, e_rc, array, capacity, alloc_failed, mem>>
             ELSE LET stored == Append(array, parse_fd_entry(entry.name, entry.target))
                  IN  IF Len(stored) = capacity /\ ~realloc_ok
                      THEN /\ errno' = "ENOMEM"
                           /\ e_rc' = -1
                           /\ pc' = "correlate"
                           /\ array' = <<>>
                           /\ capacity' = capacity * 2
                           /\ io' = io \o <<"readdir", "readlink", "closedir">>
                           /\ alloc_failed' = TRUE
                           /\ mem' = mem \o Free(Heap(array), "fds")
                           /\ UNCHANGED <<dirpos, unresolved>>
                      ELSE /\ array' = stored
                           /\ capacity' = IF Len(stored) = capacity
                                          THEN capacity * 2 ELSE capacity
                           /\ dirpos' = dirpos + 1
                           /\ io' = io \o <<"readdir", "readlink">>
                           /\ UNCHANGED <<pc, errno, e_rc, alloc_failed, unresolved, mem>>
    /\ UNCHANGED <<env, sockets, count, ret, count_param, fd_count, e_entries, e_count,
                   parseVars, fnVars>>

\* lines 292-312: readdir returned NULL; the directory is closed and the
\* outputs are set
EnumerateClose ==
    /\ pc = "readdir"
    /\ dirpos > Len(dirEntries)
    /\ e_entries' = IF num_fds = 0 THEN NULL ELSE Heap(array)
    /\ e_count' = Int32(num_fds)
    /\ e_rc' = 0
    /\ pc' = "correlate"
    /\ io' = io \o <<"readdir", "closedir">>
    /\ mem' = IF num_fds = 0 THEN mem \o Free(Heap(array), "fds") ELSE mem
    /\ UNCHANGED <<env, sockets, count, ret, errno, count_param, fd_count,
                   array, capacity, dirpos, unresolved, alloc_failed, parseVars, fnVars>>

(***************************************************************************)
(* net.c: find_process_sockets after enumerate_fds has returned            *)
(***************************************************************************)
\* lines 369-373: the socket inodes of fds[0 .. n-1], in order
RECURSIVE ExtractInodes(_, _, _)
ExtractInodes(fds, i, n) ==
    IF i > n THEN <<>>
    ELSE IF fds[i].is_socket
         THEN <<fds[i].socket_inode>> \o ExtractInodes(fds, i + 1, n)
         ELSE ExtractInodes(fds, i + 1, n)

\* memcpy of n elements of an array
Take(elems, n) == [i \in 1..n |-> elems[i]]

\* the allocations of one parse_net_file call among those that fail
ParseOom(oom, malloc_site, grow_site) ==
    {"malloc" : x \in oom \cap {malloc_site}} \cup {"grow" : x \in oom \cap {grow_site}}

\* what find_process_sockets returns with: the return value, whether lines
\* 437-438 were reached and what they store, and the opens of the
\* connection tables in order
Return(r, io_) ==
    [ret |-> r, stores |-> FALSE, merged |-> NULL, total_count |-> 0, io |-> io_,
     oom |-> FALSE, mem |-> <<>>]

\* a return of -1 after malloc returned NULL
ReturnNoMemory(io_) == [Return(-1, io_) EXCEPT !.oom = TRUE]

ReturnMerged(merged, total_count, io_) ==
    [ret |-> 0, stores |-> TRUE, merged |-> merged, total_count |-> total_count,
     io |-> io_, oom |-> FALSE, mem |-> <<>>]

Opened(r, name) == IF r.opened THEN <<name>> ELSE <<>>

\* lines 404-440, with what the two parse_net_file calls left in the locals
Merge(tcp_sockets, tcp_count, udp_sockets, udp_count, oom, io_) ==
    IF tcp_count + udp_count = 0
    THEN [Return(0, io_) EXCEPT
            !.mem = Free(tcp_sockets, "tcp_sockets") \o Free(udp_sockets, "udp_sockets")]
    ELSE IF "merged" \in oom
    THEN [ReturnNoMemory(io_) EXCEPT
            !.mem = Free(tcp_sockets, "tcp_sockets") \o Free(udp_sockets, "udp_sockets")]
    ELSE [ReturnMerged(Heap(Take(tcp_sockets.elems, tcp_count)
                            \o Take(udp_sockets.elems, udp_count)),
                       tcp_count + udp_count, io_) EXCEPT
            !.mem = Malloc("merged")
                    \o (IF tcp_count > 0 THEN Free(tcp_sockets, "tcp_sockets") ELSE <<>>)
                    \o (IF udp_count > 0 THEN Free(udp_sockets, "udp_sockets") ELSE <<>>)]

\* lines 385-402: the two parse_net_file calls.  Line 398 passes
\* &tcp_sockets and &tcp_count again, so the second call stores there and
\* udp_sockets and udp_count stay NULL and 0.
ReadTables(socket_inodes, inode_count, tcp_file, udp_file, oom, junk) ==
    Let(parse_net_file(tcp_file, TRUE, socket_inodes, inode_count,
                       ParseOom(oom, "tcp_malloc", "tcp_grow"), junk),
        LAMBDA tcp :
          IF tcp.rc # 0
          THEN [Return(-1, Opened(tcp, "fopen_tcp")) EXCEPT
                  !.oom = tcp.oom,
                  !.mem = Free(socket_inodes, "socket_inodes")]
          ELSE Let(parse_net_file(udp_file, FALSE, socket_inodes, inode_count,
                                  ParseOom(oom, "udp_malloc", "udp_grow"), junk),
                   LAMBDA udp :
                     IF udp.rc # 0
                     THEN [Return(-1, Opened(tcp, "fopen_tcp") \o Opened(udp, "fopen_udp"))
                             EXCEPT !.oom = udp.oom,
                                    !.mem = Allocated(tcp.results, "tcp_results")
                                            \o Free(socket_inodes, "socket_inodes")
                                            \o Free(udp.results, "udp_results")]
                     ELSE Let(Merge(udp.results, udp.result_count, NULL, 0, oom,
                                    Opened(tcp, "fopen_tcp") \o Opened(udp, "fopen_udp")),
                              LAMBDA m :
                                [m EXCEPT !.mem = Allocated(tcp.results, "tcp_results")
                                                  \o Allocated(udp.results, "udp_results")
                                                  \o Free(socket_inodes, "socket_inodes")
                                                  \o Held(m.mem, "tcp_sockets",
                                                          "udp_results")])))

\* the socket inodes find_process_sockets collects (lines 359-374)
SocketInodes(fds, fdc) ==
    IF fdc > 0 THEN Heap(ExtractInodes(fds.elems, 1, fdc)) ELSE NULL

\* Correlation with an empty inode set treated as a failure
CorrelationNoSocketsIsError(rc, fds, fdc, tcp_file, udp_file, oom, junk) ==
    IF rc # 0 THEN Return(-1, <<>>)
    ELSE IF fdc > 0 /\ "inodes" \in oom THEN ReturnNoMemory(<<>>)
    ELSE Let(SocketInodes(fds, fdc),
             LAMBDA socket_inodes :
               IF Len(socket_inodes.elems) = 0 THEN Return(-1, <<>>)
               ELSE ReadTables(socket_inodes, Len(socket_inodes.elems),
                               tcp_file, udp_file, oom, junk))

\* Correlation without the test of what enumerate_fds returned
CorrelationUnchecked(rc, fds, fdc, tcp_file, udp_file, oom, junk) ==
    IF fdc > 0 /\ "inodes" \in oom THEN ReturnNoMemory(<<>>)
    ELSE Let(SocketInodes(fds, fdc),
             LAMBDA socket_inodes :
               IF Len(socket_inodes.elems) = 0 THEN Return(0, <<>>)
               ELSE ReadTables(socket_inodes, Len(socket_inodes.elems),
                               tcp_file, udp_file, oom, junk))

\* Correlation with the two tables opened before the inode set is looked at
CorrelationTablesFirst(rc, fds, fdc, tcp_file, udp_file, oom, junk) ==
    IF rc # 0 THEN Return(-1, <<>>)
    ELSE IF fdc > 0 /\ "inodes" \in oom THEN ReturnNoMemory(<<>>)
    ELSE Let(SocketInodes(fds, fdc),
             LAMBDA socket_inodes :
               IF Len(socket_inodes.elems) = 0
               THEN Return(0, <<"fopen_tcp", "fopen_udp">>)
               ELSE ReadTables(socket_inodes, Len(socket_inodes.elems),
                               tcp_file, udp_file, oom, junk))

\* lines 354-440.  rc is what enumerate_fds returned, fds what it left in
\* the local fds, fdc the local fd_count; oom names the allocations that fail.
Correlation(rc, fds, fdc, tcp_file, udp_file, oom, junk) ==
    IF rc # 0 THEN Return(-1, <<>>)
    ELSE IF fdc > 0 /\ "inodes" \in oom
    THEN [ReturnNoMemory(<<>>) EXCEPT !.mem = Free(fds, "fds")]
    ELSE Let(SocketInodes(fds, fdc),
             LAMBDA socket_inodes :
               IF Len(socket_inodes.elems) = 0
               THEN [Return(0, <<>>) EXCEPT
                       !.mem = Allocated(socket_inodes, "socket_inodes")
                               \o Free(fds, "fds")
                               \o Free(socket_inodes, "socket_inodes")]
               ELSE Let(ReadTables(socket_inodes, Len(socket_inodes.elems),
                                   tcp_file, udp_file, oom, junk),
                        LAMBDA r :
                          [r EXCEPT !.mem = Allocated(socket_inodes, "socket_inodes")
                                            \o Free(fds, "fds") \o r.mem]))

AllocationSites == {"inodes", "tcp_malloc", "tcp_grow", "udp_malloc", "udp_grow", "merged"}

\* the call returns at the first allocation that fails, so one failing site
\* at most is told apart
OomChoices == {{}} \cup {{a} : a \in AllocationSites}

\* enumerate_fds has returned into find_process_sockets, which runs to its
\* return.  enumerate_fds stored its count through &count, that is into the
\* parameter count itself: fd_count is as initialised, and the parameter no
\* longer points to the caller's object, so the store of line 438 goes
\* astray (a fault, or a write somewhere else).
Correlate ==
    /\ pc = "correlate"
    /\ count_param' = "overwritten"
    /\ \E oom \in OomChoices, junk \in JunkValues :
         \E r \in {Correlation(e_rc, e_entries, fd_count, tcpFile, udpFile, oom, junk)} :
           /\ io' = io \o r.io
           /\ mem' = mem \o r.mem
           /\ alloc_failed' = (alloc_failed \/ r.oom)
           /\ errno' = IF r.oom THEN "ENOMEM" ELSE errno
           /\ IF r.stores
              THEN /\ sockets' = r.merged
                   /\ \E faults \in BOOLEAN :
                        /\ pc' = IF faults THEN "fault" ELSE "done"
                        /\ ret' = IF faults THEN ret ELSE r.ret
                   /\ UNCHANGED count
              ELSE /\ pc' = "done"
                   /\ ret' = r.ret
                   /\ UNCHANGED <<sockets, count>>
    /\ UNCHANGED <<env, fd_count, enumVars, parseVars, fnVars>>

Next == Call \/ EnumerateOpen \/ EnumerateReaddir \/ EnumerateClose \/ Correlate

Spec == Init /\ [][Next]_vars

(***************************************************************************)
(* parse_net_file(path, is_tcp, target_inodes, inode_count, &results,      *)
(* &result_count) called on its own, on any file and any target set.       *)
(***************************************************************************)
\* a line with fewer columns than the format needs
ShortLine == <<" ", " ">> \o <<"2", ":", " ">> \o Addr_Any_0

\* a row whose inode is 5 and whose tokens all parse, after RowTcp5 in a table
RowTcp5b == Row(<<"3">>, Addr_10_0_0_2_53, Addr_10_0_0_2_53, <<"0", "1">>,
                <<"0">>, <<"5">>)

RowTcp7 == Row(<<"4">>, Addr_Any_0, Addr_10_0_0_2_53, <<"0", "6">>, <<"0">>, <<"7">>)

WellFormedRows == {RowTcp5, RowTcp5b, RowTcp7, RowTcp9}

\* a row with all its columns and inode 5 whose local address token is not
\* hexadecimal
RowBadAddr == Row(<<"5">>, <<"X", "Y", "Z">>, Addr_Any_0, <<"0", "1">>, <<"0">>, <<"5">>)

MalformedLines == {ShortLine, RowBadAddr}

ParseFiles ==
    { [openable |-> FALSE, lines |-> <<>>], [openable |-> TRUE, lines |-> <<>>] } \cup
    { [openable |-> TRUE, lines |-> <<HeaderLine>> \o r] :
        r \in SeqsUpTo(WellFormedRows \cup MalformedLines, MaxFileRows) }

TargetSets == { NULL, Heap(<<>>), Heap(<<5>>), Heap(<<7, 5>>), Heap(<<9>>) }

InitParse ==
    /\ dirStatus = "ok"
    /\ dirEntries = <<>>
    /\ tcpFile = [openable |-> FALSE, lines |-> <<>>]
    /\ udpFile = [openable |-> FALSE, lines |-> <<>>]
    /\ CallIdle("none")
    /\ p_pc = "call"
    /\ p_file \in ParseFiles
    /\ p_is_tcp \in BOOLEAN
    /\ p_targets \in TargetSets
    /\ p_oom \in {{}, {"malloc"}, {"grow"}}
    /\ p_result = ParseResult(0, NULL, 0, FALSE)
    /\ FnIdle

ParseNetFile ==
    /\ p_pc = "call"
    /\ \E junk \in JunkValues :
         p_result' = parse_net_file(p_file, p_is_tcp, p_targets, Len(p_targets.elems),
                                    p_oom, junk)
    /\ p_pc' = "done"
    /\ UNCHANGED <<callVars, p_file, p_is_tcp, p_targets, p_oom, fnVars>>

NextParse == ParseNetFile

SpecParse == InitParse /\ [][NextParse]_vars

(***************************************************************************)
(* enumerate_fds(pid, &entries, &count) called on its own: pc = "enumerate" *)
(* is the call, pc = "correlate" the return to the caller.                 *)
(***************************************************************************)
\* directory entries as readdir lists them, with names that are not numbers
EnumEntryPool ==
    DirEntryPool \cup
    { [name |-> <<".", ".">>, target |-> <<>>],
      [name |-> <<"1", "a">>, target |-> TargetDevNull] }

InitEnumerate ==
    /\ dirStatus \in {"ok", "ENOENT", "EACCES"}
    /\ dirEntries \in InjSeqs(EnumEntryPool, MaxDirEntries)
    /\ dirStatus # "ok" => dirEntries = <<>>
    /\ tcpFile = [openable |-> FALSE, lines |-> <<>>]
    /\ udpFile = [openable |-> FALSE, lines |-> <<>>]
    /\ CallIdle("enumerate")
    /\ ParseIdle
    /\ FnIdle

NextEnumerate == EnumerateOpen \/ EnumerateReaddir \/ EnumerateClose

SpecEnumerate == InitEnumerate /\ [][NextEnumerate]_vars

(***************************************************************************)
(* parse_socket_inode(target, &inode) and parse_fd_entry(name, target,     *)
(* &entry) called on their own, on any target.                             *)
(***************************************************************************)
\* a const char *: NULL, or a string with its characters
NullStr == [null |-> TRUE, chars |-> <<>>]

CStr(chars) == [null |-> FALSE, chars |-> chars]

\* the targets of the examples in the code
TargetSocket12345 ==
    <<"s", "o", "c", "k", "e", "t", ":", "[", "1", "2", "3", "4", "5", "]">>
TargetPipe12345 ==
    <<"p", "i", "p", "e", ":", "[", "1", "2", "3", "4", "5", "]">>
TargetEventfd ==
    <<"a", "n", "o", "n", "_", "i", "n", "o", "d", "e", ":", "[", "e", "v", "e",
    "n", "t", "f", "d", "]">>

\* what a target may start with, hold between the brackets, and end with
TargetHeads ==
    { <<"s", "o", "c", "k", "e", "t", ":", "[">>,
      <<"p", "i", "p", "e", ":", "[">>,
      <<"x", "s", "o", "c", "k", "e", "t", ":", "[">>,
      <<"s", "o", "c", "k", "e", "t", ":">>,
      <<>> }

TargetNumbers ==
    { <<>>, <<"5">>, <<"6", "7", "8", "9", "0">>, <<" ", "5">>, <<"-", "5">>, <<"5", "x">> }

TargetTails == { <<"]">>, <<>>, <<"]", "x">> }

SymlinkTargets ==
    {TargetSocket12345, TargetPipe12345, TargetEventfd, TargetDevNull} \cup
    { h \o n \o t : h \in TargetHeads, n \in TargetNumbers, t \in TargetTails }

\* what the caller's unsigned long holds before the call
InodesBefore == {0, 99}

InitSocketInode ==
    /\ dirStatus = "ok"
    /\ dirEntries = <<>>
    /\ tcpFile = [openable |-> FALSE, lines |-> <<>>]
    /\ udpFile = [openable |-> FALSE, lines |-> <<>>]
    /\ CallIdle("none")
    /\ ParseIdle
    /\ f_pc = "call"
    /\ \E t \in {NullStr} \cup { CStr(c) : c \in SymlinkTargets }, before \in InodesBefore :
         f_in = [fn |-> "parse_socket_inode", target |-> t, inode |-> before]
    /\ f_out = [fn |-> "none"]

\* proc_fd.c:361 and, for the same target, proc_fd.c:145-155.  sscanf reads
\* the characters target points to: with target NULL that is undefined, and
\* the call faults or comes back without a conversion.
ParseSocketInode ==
    /\ f_pc = "call"
    /\ f_in.fn = "parse_socket_inode"
    /\ IF f_in.target.null
       THEN \E faults \in BOOLEAN :
              /\ f_pc' = IF faults THEN "fault" ELSE "done"
              /\ f_out' = IF faults THEN [fn |-> "none"]
                          ELSE [fn |-> "parse_socket_inode", returned |-> FALSE,
                                inode |-> f_in.inode, entry |-> [fn |-> "none"]]
       ELSE \E r \in {parse_socket_inode(f_in.target.chars)} :
              /\ f_pc' = "done"
              /\ f_out' = [fn |-> "parse_socket_inode", returned |-> r.matched,
                           inode |-> IF r.matched THEN r.inode ELSE f_in.inode,
                           entry |-> parse_fd_entry(<<"3">>, f_in.target.chars)]
    /\ UNCHANGED <<callVars, parseVars, f_in>>

NextSocketInode == ParseSocketInode

SpecSocketInode == InitSocketInode /\ [][NextSocketInode]_vars

(***************************************************************************)
(* proc_task.c: enumerate_threads(pid, &threads, &count) called on its     *)
(* own.  f_in holds the task directory the kernel shows, f_out the frame   *)
(* of the call and its outputs.                                            *)
(***************************************************************************)
\* util.c: char_to_state
char_to_state(c) ==
    CASE c = "R" -> "PROC_STATE_RUNNING"
      [] c = "S" -> "PROC_STATE_SLEEPING"
      [] c = "D" -> "PROC_STATE_DISK_SLEEP"
      [] c = "Z" -> "PROC_STATE_ZOMBIE"
      [] c = "T" -> "PROC_STATE_STOPPED"
      [] c = "I" -> "PROC_STATE_IDLE"
      [] OTHER -> "PROC_STATE_UNKNOWN"

\* fgets(buf, size, fp) on the text left in a file: at most size - 1
\* characters, up to and including the first newline
RECURSIVE fgets(_, _)
fgets(text, size) ==
    IF text = <<>> \/ size <= 1 THEN <<>>
    ELSE IF Head(text) = "\n" THEN <<"\n">>
    ELSE <<Head(text)>> \o fgets(Tail(text), size - 1)

\* the fallback name
FallbackName == <<"?", "?", "?">>

\* read_thread_name with the fallback left out: the name is left empty
read_thread_name_no_fallback(comm) ==
    IF ~comm.readable \/ fgets(comm.text, PROC_NAME_MAX) = <<>>
    THEN [rc |-> -1, name |-> <<>>]
    ELSE Let(fgets(comm.text, PROC_NAME_MAX),
             LAMBDA name :
               [rc |-> 0,
                name |-> IF name[Len(name)] = "\n" THEN SubSeq(name, 1, Len(name) - 1)
                         ELSE name])

\* read_thread_name: the first line of comm without its newline, or "???"
\* when comm cannot be opened or is empty
read_thread_name(comm) ==
    IF ~comm.readable \/ fgets(comm.text, PROC_NAME_MAX) = <<>>
    THEN [rc |-> -1, name |-> FallbackName]
    ELSE Let(fgets(comm.text, PROC_NAME_MAX),
             LAMBDA name :
               [rc |-> 0,
                name |-> IF name[Len(name)] = "\n" THEN SubSeq(name, 1, Len(name) - 1)
                         ELSE name])

\* "State: %c"
StateFormat ==
    <<Lit(<<"S", "t", "a", "t", "e", ":">>), [kind |-> "ws"], Conv("chr", "state_char")>>

\* read_thread_state: the state of the first line of status that reads as
\* "State: <c>", PROC_STATE_UNKNOWN when there is none or status cannot be
\* opened
RECURSIVE StateOfLines(_, _)
StateOfLines(lines, i) ==
    IF i > Len(lines) THEN "PROC_STATE_UNKNOWN"
    ELSE Let(sscanf(lines[i], StateFormat),
             LAMBDA r : IF r.matched = 1 THEN char_to_state(r.vals["state_char"])
                        ELSE StateOfLines(lines, i + 1))

read_thread_state(status) ==
    IF ~status.readable THEN "PROC_STATE_UNKNOWN" ELSE StateOfLines(status.lines, 1)

\* the files of a thread: comm and status
NameLine(n) == <<"N", "a", "m", "e", ":", "\t">> \o n \o <<"\n">>

StateLine(c, word) ==
    <<"S", "t", "a", "t", "e", ":", "\t", c, " ", "(">> \o word \o <<")", "\n">>

Task(tid, n, c, word) ==
    [name |-> tid,
     comm |-> [readable |-> TRUE, text |-> n \o <<"\n">>],
     status |-> [readable |-> TRUE, lines |-> <<NameLine(n), StateLine(c, word)>>]]

\* a file of a thread that has exited
Gone == [readable |-> FALSE, text |-> <<>>, lines |-> <<>>]

\* the entries of /proc/<pid>/task as readdir lists them
TaskPool ==
    { [name |-> <<".">>, comm |-> Gone, status |-> Gone],
      Task(<<"1", "0">>, <<"m", "a", "i", "n">>, "S",
           <<"s", "l", "e", "e", "p", "i", "n", "g">>),
      Task(<<"1", "1">>, <<"w", "o", "r", "k", "e", "r">>, "R",
           <<"r", "u", "n", "n", "i", "n", "g">>),
      Task(<<"1", "2">>, <<"i", "o">>, "D",
           <<"d", "i", "s", "k", " ", "s", "l", "e", "e", "p">>) }

\* when a listed thread exits: not at all, before its comm is read, or
\* after that and before its status is read
ExitPoints == {"never", "before_comm", "before_status"}

InitThreads ==
    /\ dirStatus = "ok"
    /\ dirEntries = <<>>
    /\ tcpFile = [openable |-> FALSE, lines |-> <<>>]
    /\ udpFile = [openable |-> FALSE, lines |-> <<>>]
    /\ CallIdle("none")
    /\ ParseIdle
    /\ f_pc = "call"
    /\ \E st \in {"ok", "ENOENT", "EACCES"}, tasks \in InjSeqs(TaskPool, MaxDirEntries) :
         /\ st # "ok" => tasks = <<>>
         /\ f_in = [fn |-> "enumerate_threads", dir_status |-> st, tasks |-> tasks]
    /\ f_out = [fn |-> "enumerate_threads", threads |-> Indeterminate,
                count |-> Indeterminate, rc |-> 0, errno |-> "0", array |-> <<>>,
                capacity |-> 0, dirpos |-> 0, exited |-> {}, oom |-> FALSE]

\* proc_task.c:131-158: the outputs are cleared, the task directory is
\* opened and the initial array allocated
EnumerateThreadsOpen ==
    /\ f_pc = "call"
    /\ f_in.fn = "enumerate_threads"
    /\ \E malloc_ok \in BOOLEAN :
         IF f_in.dir_status # "ok"
         THEN /\ f_pc' = "done"
              /\ f_out' = [f_out EXCEPT !.threads = NULL, !.count = Int32(0),
                                        !.rc = -1, !.errno = f_in.dir_status]
         ELSE IF ~malloc_ok
         THEN /\ f_pc' = "done"
              /\ f_out' = [f_out EXCEPT !.threads = NULL, !.count = Int32(0),
                                        !.rc = -1, !.errno = "ENOMEM", !.oom = TRUE]
         ELSE /\ f_pc' = "readdir"
              /\ f_out' = [f_out EXCEPT !.threads = NULL, !.count = Int32(0),
                                        !.capacity = INITIAL_THREAD_CAPACITY,
                                        !.dirpos = 1]
    /\ UNCHANGED <<callVars, parseVars, f_in>>

\* proc_task.c:161-189: one iteration of the readdir loop.  exits says when
\* the listed thread exits; realloc_ok whether the growing realloc succeeds.
EnumerateThreadsReaddir ==
    /\ f_pc = "readdir"
    /\ f_in.fn = "enumerate_threads"
    /\ f_out.dirpos <= Len(f_in.tasks)
    /\ LET entry == f_in.tasks[f_out.dirpos]
       IN  \E exits \in ExitPoints, realloc_ok \in BOOLEAN :
             IF ~is_numeric(entry.name)
             THEN /\ f_pc' = f_pc
                  /\ f_out' = [f_out EXCEPT !.dirpos = f_out.dirpos + 1]
             ELSE LET comm == IF exits = "before_comm" THEN Gone ELSE entry.comm
                      status == IF exits = "never" THEN entry.status ELSE Gone
                      stored == Append(f_out.array,
                                       [tid |-> Atoi(entry.name),
                                        name |-> read_thread_name(comm).name,
                                        state |-> read_thread_state(status)])
                      exited == IF exits = "before_comm"
                                THEN f_out.exited \cup {f_out.dirpos} ELSE f_out.exited
                  IN  IF Len(stored) = f_out.capacity /\ ~realloc_ok
                      THEN /\ f_pc' = "done"
                           /\ f_out' = [f_out EXCEPT !.array = <<>>, !.rc = -1,
                                                     !.errno = "ENOMEM", !.oom = TRUE,
                                                     !.exited = exited,
                                                     !.capacity = f_out.capacity * 2]
                      ELSE /\ f_pc' = f_pc
                           /\ f_out' = [f_out EXCEPT
                                          !.array = stored,
                                          !.exited = exited,
                                          !.capacity = IF Len(stored) = f_out.capacity
                                                       THEN f_out.capacity * 2
                                                       ELSE f_out.capacity,
                                          !.dirpos = f_out.dirpos + 1]
    /\ UNCHANGED <<callVars, parseVars, f_in>>

\* proc_task.c:192-211: readdir returned NULL; the directory is closed and
\* the outputs are set
EnumerateThreadsClose ==
    /\ f_pc = "readdir"
    /\ f_in.fn = "enumerate_threads"
    /\ f_out.dirpos > Len(f_in.tasks)
    /\ f_pc' = "done"
    /\ f_out' = [f_out EXCEPT
                   !.threads = IF f_out.array = <<>> THEN NULL ELSE Heap(f_out.array),
                   !.count = Int32(Len(f_out.array)),
                   !.rc = 0]
    /\ UNCHANGED <<callVars, parseVars, f_in>>

NextThreads == EnumerateThreadsOpen \/ EnumerateThreadsReaddir \/ EnumerateThreadsClose

SpecThreads == InitThreads /\ [][NextThreads]_vars

(***************************************************************************)
(* net.c: the address codec called on its own: format_ip_port(addr, port,  *)
(* buf, buflen), and parse_hex_addr on a table token followed by           *)
(* format_ip_port on what it decoded.  A uint32_t is its four bytes, most  *)
(* significant first.                                                      *)
(***************************************************************************)
\* the characters %u prints for n
RECURSIVE DecimalChars(_)
DecimalChars(n) ==
    IF n < 10 THEN <<Digits[n + 1]>>
    ELSE DecimalChars(n \div 10) \o <<Digits[(n % 10) + 1]>>

\* the bytes of a uint32_t as they lie in memory on the little-endian host,
\* lowest address first
MemoryBytes(w) == [i \in 1..4 |-> w[5 - i]]

\* ntohl on a little-endian host: the four bytes reversed
ntohl(w) == [i \in 1..4 |-> w[5 - i]]

\* inet_ntoa: the four bytes of s_addr in memory order, in decimal, with dots
inet_ntoa(s_addr) ==
    LET b == MemoryBytes(s_addr)
    IN  DecimalChars(b[1]) \o <<".">> \o DecimalChars(b[2]) \o <<".">>
        \o DecimalChars(b[3]) \o <<".">> \o DecimalChars(b[4])

\* the terminating byte of a C string
NUL == "\\0"

\* snprintf(buf, buflen, "%s:%u", ip_str, port) with buflen >= 1: the bytes
\* written, at most buflen - 1 characters and the terminator
snprintf(buflen, ip_str, port) ==
    LET full == ip_str \o <<":">> \o DecimalChars(port)
    IN  SubSeq(full, 1, IF Len(full) < buflen - 1 THEN Len(full) ELSE buflen - 1)
        \o <<NUL>>

\* a char buffer: NULL, or an array with the bytes written to its start
NullBuf == [null |-> TRUE, bytes |-> <<>>]

Buf(bytes) == [null |-> FALSE, bytes |-> bytes]

\* format_ip_port with the address converted to host order before it is
\* handed to inet_ntoa
format_ip_port_host_order(addr, port, buf, buflen) ==
    IF buf.null \/ buflen = 0 THEN buf
    ELSE Buf(snprintf(buflen, inet_ntoa(ntohl(addr)), port))

\* format_ip_port: the buffer after the call
format_ip_port(addr, port, buf, buflen) ==
    IF buf.null \/ buflen = 0 THEN buf
    ELSE Buf(snprintf(buflen, inet_ntoa(addr), port))

\* the two hex digits of a byte, as the kernel prints them (%02X)
HexByte(b) == <<HexDigits[(b \div 16) + 1], HexDigits[(b % 16) + 1]>>

\* the token of a connection table for the address whose bytes on the wire
\* are a, b, c, d and the port p: the address as the host reads those four
\* bytes as an integer (%08X), a colon, the port (%04X)
TableToken(a, b, c, d, p) ==
    HexByte(d) \o HexByte(c) \o HexByte(b) \o HexByte(a) \o <<":">>
    \o HexByte(p \div 256) \o HexByte(p % 256)

AddrBytes == {0, 1, 127, 255}

Ports == {0, 22, 8080, 65535}

BufLens == {0, 1, 8, 32}

InitCodec ==
    /\ dirStatus = "ok"
    /\ dirEntries = <<>>
    /\ tcpFile = [openable |-> FALSE, lines |-> <<>>]
    /\ udpFile = [openable |-> FALSE, lines |-> <<>>]
    /\ CallIdle("none")
    /\ ParseIdle
    /\ f_pc = "call"
    /\ \E w \in [1..4 -> AddrBytes], p \in Ports :
         \/ \E n \in BufLens, b \in {NullBuf, Buf(<<>>)} :
              f_in = [fn |-> "format_ip_port", addr |-> w, port |-> p,
                      buf |-> b, buflen |-> n]
         \/ f_in = [fn |-> "parse_hex_addr", wire |-> w, port |-> p,
                    hex |-> TableToken(w[1], w[2], w[3], w[4], p)]
    /\ f_out = [fn |-> "none"]

\* net.c:117-133
FormatIpPort ==
    /\ f_pc = "call"
    /\ f_in.fn = "format_ip_port"
    /\ f_pc' = "done"
    /\ f_out' = [fn |-> "format_ip_port",
                 buf |-> format_ip_port(f_in.addr, f_in.port, f_in.buf, f_in.buflen)]
    /\ UNCHANGED <<callVars, parseVars, f_in>>

\* net.c:71-99 on a table token, then net.c:117-133 on the address and port
\* it stored, with a buffer of 32 bytes
DecodeThenFormat ==
    /\ f_pc = "call"
    /\ f_in.fn = "parse_hex_addr"
    /\ f_pc' = "done"
    /\ \E r \in {parse_hex_addr(f_in.hex)} :
         f_out' = [fn |-> "parse_hex_addr", rc |-> r.rc, ip |-> r.ip, port |-> r.port,
                   buf |-> IF r.rc = 0 THEN format_ip_port(r.ip, r.port, Buf(<<>>), 32)
                           ELSE Buf(<<>>)]
    /\ UNCHANGED <<callVars, parseVars, f_in>>

NextCodec == FormatIpPort \/ DecodeThenFormat

SpecCodec == InitCodec /\ [][NextCodec]_vars

(***************************************************************************)
(* net.c: parse_hex_addr(hex, ip, port) called on its own with tokens of   *)
(* every shape, hex and the two output pointers possibly NULL.             *)
(***************************************************************************)
\* what the address field, the separator and the port field of a token may be
AddrFields ==
    { <<"0", "1", "0", "0", "0", "0", "7", "F">>,
      <<"0", "1", "0", "0", "0", "0", "7", "f">>,
      <<"7", "F">>,
      <<"0", "1", "0", "0", "0", "0", "7", "G">>,
      <<"0", "1", "0", "0", "0", "0", "7", "F", "0">>,
      <<>> }

Separators == { <<":">>, <<>>, <<" ">> }

PortFields ==
    { <<"1", "F", "9", "0">>,
      <<"1", "F">>,
      <<"1", "F", "9", "Z">>,
      <<"1", "F", "9", "0", "z">>,
      <<"1", "F", "9", "0", "0">>,
      <<>> }

HexTokens == { a \o s \o p : a \in AddrFields, s \in Separators, p \in PortFields }

\* what the caller's uint32_t and uint16_t hold before the call
OutputsBefore == [ip |-> <<9, 9, 9, 9>>, port |-> 9]

InitHexAddr ==
    /\ dirStatus = "ok"
    /\ dirEntries = <<>>
    /\ tcpFile = [openable |-> FALSE, lines |-> <<>>]
    /\ udpFile = [openable |-> FALSE, lines |-> <<>>]
    /\ CallIdle("none")
    /\ ParseIdle
    /\ f_pc = "call"
    /\ \E h \in {NullStr} \cup { CStr(c) : c \in HexTokens },
          ip_null \in BOOLEAN, port_null \in BOOLEAN :
         f_in = [fn |-> "parse_hex_addr", hex |-> h,
                 ip_null |-> ip_null, port_null |-> port_null,
                 ip |-> OutputsBefore.ip, port |-> OutputsBefore.port]
    /\ f_out = [fn |-> "none"]

\* net.c:71-99: the NULL tests of line 73, then the scan and the two stores
ParseHexAddr ==
    /\ f_pc = "call"
    /\ f_in.fn = "parse_hex_addr"
    /\ f_pc' = "done"
    /\ IF f_in.hex.null \/ f_in.ip_null \/ f_in.port_null
       THEN f_out' = [fn |-> "parse_hex_addr", rc |-> -1,
                      ip |-> f_in.ip, port |-> f_in.port]
       ELSE \E r \in {parse_hex_addr(f_in.hex.chars)} :
              f_out' = [fn |-> "parse_hex_addr", rc |-> r.rc,
                        ip |-> IF r.rc = 0 THEN r.ip ELSE f_in.ip,
                        port |-> IF r.rc = 0 THEN r.port ELSE f_in.port]
    /\ UNCHANGED <<callVars, parseVars, f_in>>

NextHexAddr == ParseHexAddr

SpecHexAddr == InitHexAddr /\ [][NextHexAddr]_vars

(***************************************************************************)
(* net.c: tcp_state_to_string(state) called on its own.  The enumeration   *)
(* tcp_state_t is declared in no header of the repository: its eleven      *)
(* constants carry the codes of the kernel's connection table, 0x01 to     *)
(* 0x0B, the "single hexadecimal byte" of a table row.                     *)
(***************************************************************************)
tcp_state_t ==
    [TCP_ESTABLISHED |-> 1, TCP_SYN_SENT |-> 2, TCP_SYN_RECV |-> 3,
     TCP_FIN_WAIT1 |-> 4, TCP_FIN_WAIT2 |-> 5, TCP_TIME_WAIT |-> 6,
     TCP_CLOSE |-> 7, TCP_CLOSE_WAIT |-> 8, TCP_LAST_ACK |-> 9,
     TCP_LISTEN |-> 10, TCP_CLOSING |-> 11]

\* tcp_state_to_string whose default falls into the case before it
tcp_state_to_string_default_closing(state) ==
    CASE state = tcp_state_t.TCP_ESTABLISHED -> "ESTABLISHED"
      [] state = tcp_state_t.TCP_SYN_SENT    -> "SYN_SENT"
      [] state = tcp_state_t.TCP_SYN_RECV    -> "SYN_RECV"
      [] state = tcp_state_t.TCP_FIN_WAIT1   -> "FIN_WAIT1"
      [] state = tcp_state_t.TCP_FIN_WAIT2   -> "FIN_WAIT2"
      [] state = tcp_state_t.TCP_TIME_WAIT   -> "TIME_WAIT"
      [] state = tcp_state_t.TCP_CLOSE       -> "CLOSE"
      [] state = tcp_state_t.TCP_CLOSE_WAIT  -> "CLOSE_WAIT"
      [] state = tcp_state_t.TCP_LAST_ACK    -> "LAST_ACK"
      [] state = tcp_state_t.TCP_LISTEN      -> "LISTEN"
      [] OTHER                               -> "CLOSING"

\* tcp_state_to_string: the switch of net.c:35-48
tcp_state_to_string(state) ==
    CASE state = tcp_state_t.TCP_ESTABLISHED -> "ESTABLISHED"
      [] state = tcp_state_t.TCP_SYN_SENT    -> "SYN_SENT"
      [] state = tcp_state_t.TCP_SYN_RECV    -> "SYN_RECV"
      [] state = tcp_state_t.TCP_FIN_WAIT1   -> "FIN_WAIT1"
      [] state = tcp_state_t.TCP_FIN_WAIT2   -> "FIN_WAIT2"
      [] state = tcp_state_t.TCP_TIME_WAIT   -> "TIME_WAIT"
      [] state = tcp_state_t.TCP_CLOSE       -> "CLOSE"
      [] state = tcp_state_t.TCP_CLOSE_WAIT  -> "CLOSE_WAIT"
      [] state = tcp_state_t.TCP_LAST_ACK    -> "LAST_ACK"
      [] state = tcp_state_t.TCP_LISTEN      -> "LISTEN"
      [] state = tcp_state_t.TCP_CLOSING     -> "CLOSING"
      [] OTHER                               -> "UNKNOWN"

\* the values a caller passes: every byte a table row can hold, and -1
StateCodes == (-1)..255

InitTcpState ==
    /\ dirStatus = "ok"
    /\ dirEntries = <<>>
    /\ tcpFile = [openable |-> FALSE, lines |-> <<>>]
    /\ udpFile = [openable |-> FALSE, lines |-> <<>>]
    /\ CallIdle("none")
    /\ ParseIdle
    /\ f_pc = "call"
    /\ \E s \in StateCodes : f_in = [fn |-> "tcp_state_to_string", state |-> s]
    /\ f_out = [fn |-> "none"]

\* net.c:33-49
TcpStateToString ==
    /\ f_pc = "call"
    /\ f_in.fn = "tcp_state_to_string"
    /\ f_pc' = "done"
    /\ f_out' = [fn |-> "tcp_state_to_string",
                 returned |-> tcp_state_to_string(f_in.state)]
    /\ UNCHANGED <<callVars, parseVars, f_in>>

NextTcpState == TcpStateToString

SpecTcpState == InitTcpState /\ [][NextTcpState]_vars

(***************************************************************************)
(* util.c: parse_pid(str) called on its own.  A long is its four 16-bit    *)
(* limbs, most significant first; pid_t is a 32-bit int.                   *)
(***************************************************************************)
BASE == 10

LONG_MAX == <<32767, 65535, 65535, 65535>>

\* the long l * BASE + d, and whether that exceeds LONG_MAX
MulAdd(l, d) ==
    LET t0 == l[4] * BASE + d
        t1 == l[3] * BASE + (t0 \div 65536)
        t2 == l[2] * BASE + (t1 \div 65536)
        t3 == l[1] * BASE + (t2 \div 65536)
    IN  [over |-> t3 >= 32768,
         val |-> <<t3 % 65536, t2 % 65536, t1 % 65536, t0 % 65536>>]

\* strtol(str, NULL, BASE) on a string of digits: the value, or LONG_MAX
\* with errno = ERANGE when the value does not fit a long
RECURSIVE strtol(_, _, _)
strtol(str, i, acc) ==
    IF i > Len(str) \/ ~IsDigit(str[i]) THEN [val |-> acc, erange |-> FALSE]
    ELSE Let(MulAdd(acc, DigitVal(str[i])),
             LAMBDA m : IF m.over THEN [val |-> LONG_MAX, erange |-> TRUE]
                        ELSE strtol(str, i + 1, m.val))

\* (pid_t) of a long: its low 32 bits as a two's complement int
ToPid(l) ==
    IF l[3] >= 32768 THEN (l[3] - 65536) * 65536 + l[4] ELSE l[3] * 65536 + l[4]

\* parse_pid: [returned, message] for the string str (NullStr or CStr)
parse_pid(str) ==
    IF str.null \/ str.chars = <<>>
    THEN [returned |-> -1, message |-> "Expected a PID argument"]
    ELSE IF \E i \in 1..Len(str.chars) : ~IsDigit(str.chars[i])
    THEN [returned |-> -1, message |-> "The PID argument must be an integer"]
    ELSE Let(strtol(str.chars, 1, <<0, 0, 0, 0>>),
             LAMBDA r : IF r.erange
                        THEN [returned |-> -1, message |-> "PID value out of range"]
                        ELSE IF ToPid(r.val) <= 0
                        THEN [returned |-> -1, message |-> "PID must be positive"]
                        ELSE [returned |-> ToPid(r.val), message |-> ""])

\* the strings of the tests, and digit strings around the limits of pid_t
\* and of long
PidStrings ==
    { <<"1", "2", "3", "4">>, <<"a", "b", "c">>, <<"-", "1", "2", "3">>, <<"0">>, <<>>,
      <<"0", "0", "0", "4", "2">>,
      <<"4", "1", "9", "4", "3", "0", "4">>,
      <<"2", "1", "4", "7", "4", "8", "3", "6", "4", "7">>,
      <<"2", "1", "4", "7", "4", "8", "3", "6", "4", "8">>,
      <<"4", "2", "9", "4", "9", "6", "7", "2", "9", "5">>,
      <<"4", "2", "9", "4", "9", "6", "7", "2", "9", "6">>,
      <<"4", "2", "9", "4", "9", "6", "7", "2", "9", "7">>,
      <<"4", "2", "9", "4", "9", "6", "8", "5", "3", "0">>,
      <<"0", "4", "2", "9", "4", "9", "6", "8", "5", "3", "0">>,
      <<"9", "2", "2", "3", "3", "7", "2", "0", "3", "6", "8", "5", "4", "7", "7", "5",
        "8", "0", "7">>,
      <<"9", "2", "2", "3", "3", "7", "2", "0", "3", "6", "8", "5", "4", "7", "7", "5",
        "8", "0", "8">>,
      <<"1", "8", "4", "4", "6", "7", "4", "4", "0", "7", "3", "7", "0", "9", "5", "5",
        "1", "6", "1", "7">> }
    \cup { <<a>> : a \in {"1", "9", "-", "+", " ", "x"} }
    \cup { <<a, b>> : a, b \in {"0", "1", "9", "-", "+", " ", "x"} }

InitPid ==
    /\ dirStatus = "ok"
    /\ dirEntries = <<>>
    /\ tcpFile = [openable |-> FALSE, lines |-> <<>>]
    /\ udpFile = [openable |-> FALSE, lines |-> <<>>]
    /\ CallIdle("none")
    /\ ParseIdle
    /\ f_pc = "call"
    /\ \E s \in {NullStr} \cup { CStr(c) : c \in PidStrings } :
         f_in = [fn |-> "parse_pid", str |-> s]
    /\ f_out = [fn |-> "none"]

\* util.c:69-115
ParsePid ==
    /\ f_pc = "call"
    /\ f_in.fn = "parse_pid"
    /\ f_pc' = "done"
    /\ \E r \in {parse_pid(f_in.str)} :
         f_out' = [fn |-> "parse_pid", returned |-> r.returned, stderr |-> r.message]
    /\ UNCHANGED <<callVars, parseVars, f_in>>

NextPid == ParsePid

SpecPid == InitPid /\ [][NextPid]_vars

(***************************************************************************)
(* main.c: main(argc, argv).  argv holds the arguments after the program   *)
(* name, each a sequence of characters.  The environment decides what      *)
(* opening /proc/<pid>/status gives, whether stderr can be written, and    *)
(* which of the three enumerations fail.                                   *)
(***************************************************************************)
\* long_options of main.c:101-107: the option character of a long name
LongOptions ==
    [n \in { <<"v", "e", "r", "b", "o", "s", "e">>, <<"n", "e", "t", "w", "o", "r", "k">>,
             <<"h", "e", "l", "p">>, <<"v", "e", "r", "s", "i", "o", "n">> } |->
       IF n = <<"v", "e", "r", "b", "o", "s", "e">> THEN "v"
       ELSE IF n = <<"n", "e", "t", "w", "o", "r", "k">> THEN "n"
       ELSE IF n = <<"h", "e", "l", "p">> THEN "h" ELSE "V"]

\* getopt_long takes an argument for an option when it starts with '-' and
\* has more characters
IsOption(arg) == Len(arg) > 1 /\ arg[1] = "-"

\* the characters getopt_long returns for one option argument, in order:
\* the letters of a group of short options, '?' for one not in "vnhV", or
\* the letter of a long option, '?' for an unknown one
OptChars(arg) ==
    IF arg[2] = "-"
    THEN IF SubSeq(arg, 3, Len(arg)) \in DOMAIN LongOptions
         THEN <<LongOptions[SubSeq(arg, 3, Len(arg))]>> ELSE <<"?">>
    ELSE [i \in 1..(Len(arg) - 1) |->
            IF arg[i + 1] \in {"v", "n", "h", "V"} THEN arg[i + 1] ELSE "?"]

\* all option characters of argv in order, and the other arguments, which
\* getopt_long moves behind the options
RECURSIVE AllOptChars(_)
AllOptChars(argv) ==
    IF argv = <<>> THEN <<>>
    ELSE (IF IsOption(Head(argv)) THEN OptChars(Head(argv)) ELSE <<>>)
         \o AllOptChars(Tail(argv))

Operands(argv) == SelectSeq(argv, LAMBDA a : ~IsOption(a))

\* the switch of main.c:111-128 over the option characters
RECURSIVE OptLoop(_, _)
OptLoop(opts, o) ==
    IF opts = <<>> THEN [rc |-> 0, options |-> o]
    ELSE IF Head(opts) = "v" THEN OptLoop(Tail(opts), [o EXCEPT !.verbose = TRUE])
    ELSE IF Head(opts) = "n" THEN OptLoop(Tail(opts), [o EXCEPT !.network_only = TRUE])
    ELSE IF Head(opts) = "h" THEN OptLoop(Tail(opts), [o EXCEPT !.help = TRUE])
    ELSE IF Head(opts) = "V" THEN OptLoop(Tail(opts), [o EXCEPT !.version = TRUE])
    ELSE [rc |-> -1, options |-> o]

\* options = {0} of main.c:23-29
NoOptions ==
    [verbose |-> FALSE, network_only |-> FALSE, help |-> FALSE, version |-> FALSE,
     pid |-> 0]

\* parse_args: [rc, options]
parse_args(argv) ==
    Let(OptLoop(AllOptChars(argv), NoOptions),
        LAMBDA l :
          IF l.rc # 0 THEN l
          ELSE IF l.options.help \/ l.options.version THEN l
          ELSE IF Operands(argv) = <<>> THEN [l EXCEPT !.rc = -1]
          ELSE Let(parse_pid(CStr(Operands(argv)[1])).returned,
                   LAMBDA pid : [rc |-> IF pid = -1 THEN -1 ELSE 0,
                                 options |-> [l.options EXCEPT !.pid = pid]]))

\* the arguments a command line is made of
ArgPool ==
    { <<"-", "v">>, <<"-", "n">>, <<"-", "h">>, <<"-", "V">>, <<"-", "x">>,
      <<"-", "v", "n">>, <<"-", "-", "h", "e", "l", "p">>,
      <<"-", "-", "b", "o", "g", "u", "s">>, <<"-", "1">>,
      <<"1", "2", "3", "4">>, <<"a", "b", "c">>, <<"0">>,
      <<"4", "2", "9", "4", "9", "6", "7", "2", "9", "7">> }

CommandLines == {<<>>} \cup { <<a>> : a \in ArgPool } \cup { <<a, b>> : a, b \in ArgPool }

\* what fopen of the status file sets errno to, "0" when it opens
StatusErrnos == {"0", "ENOENT", "EACCES"}

InitMain ==
    /\ dirStatus = "ok"
    /\ dirEntries = <<>>
    /\ tcpFile = [openable |-> FALSE, lines |-> <<>>]
    /\ udpFile = [openable |-> FALSE, lines |-> <<>>]
    /\ CallIdle("none")
    /\ ParseIdle
    /\ f_pc = "main"
    /\ \E argv \in CommandLines, st \in StatusErrnos, w \in BOOLEAN :
         f_in = [fn |-> "main", argv |-> argv, status |-> st, stderr_writable |-> w]
    /\ f_out = [fn |-> "none"]

\* main.c:242-256: parse_args, then the returns for bad arguments, help
\* and version
MainParseArgs ==
    /\ f_pc = "main"
    /\ \E a \in {parse_args(f_in.argv)} :
         IF a.rc # 0
         THEN /\ f_pc' = "exit"
              /\ f_out' = [fn |-> "main", exit |-> 1, options |-> a.options]
         ELSE IF a.options.help \/ a.options.version
         THEN /\ f_pc' = "exit"
              /\ f_out' = [fn |-> "main", exit |-> 0, options |-> a.options]
         ELSE /\ f_pc' = "status"
              /\ f_out' = [fn |-> "main", exit |-> 0, options |-> a.options]
    /\ UNCHANGED <<callVars, parseVars, f_in>>

\* main.c:258-264: read_proc_status fails when the status file does not
\* open.  The message is written before errno is looked at: a write to a
\* stderr that cannot be written leaves EBADF in errno.
MainReadStatus ==
    /\ f_pc = "status"
    /\ IF f_in.status = "0"
       THEN /\ f_pc' = "report"
            /\ f_out' = f_out
       ELSE \E e \in {IF f_in.stderr_writable THEN f_in.status ELSE "EBADF"} :
              /\ f_pc' = "exit"
              /\ f_out' = [f_out EXCEPT !.exit = IF e = "ENOENT" THEN 2 ELSE 3]
    /\ UNCHANGED <<callVars, parseVars, f_in>>

\* main.c:266-275, 61-93, 171-232: each report prints a line when its
\* enumeration fails and returns; main returns 0
MainReport ==
    /\ f_pc = "report"
    /\ f_pc' = "exit"
    /\ \E fds_fail, threads_fail, sockets_fail \in BOOLEAN :
         f_out' = [fn |-> "main", exit |-> 0, options |-> f_out.options,
                   failed |-> [fds |-> fds_fail /\ ~f_out.options.network_only,
                               threads |-> /\ threads_fail
                                           /\ ~f_out.options.network_only
                                           /\ f_out.options.verbose,
                               sockets |-> sockets_fail]]
    /\ UNCHANGED <<callVars, parseVars, f_in>>

NextMain == MainParseArgs \/ MainReadStatus \/ MainReport

SpecMain == InitMain /\ [][NextMain]_vars

(***************************************************************************)
(* The accumulation loops of enumerate_fds, parse_net_file and             *)
(* enumerate_threads on directories and tables longer than the initial     *)
(* capacity.  The frame keeps the counters of a call: read, the entries    *)
(* read so far; num, the entries stored (num_fds, count, num_threads);     *)
(* capacity; and for the last iteration the index it wrote at (-1 when it  *)
(* stored nothing) and the capacity the array had at that write.  The      *)
(* directory or table is finite: it holds at most MaxSkipped entries that  *)
(* are not stored, and ends at the latest after the array has grown        *)
(* MaxGrowths times.                                                       *)
(***************************************************************************)
MaxGrowths == 2

MaxSkipped == 2

RECURSIVE Doubled(_, _)
Doubled(cap, times) ==
    IF times = 0 THEN cap ELSE Doubled(cap * 2, times - 1)

LoopFrame(fn, initial) ==
    [fn |-> fn, read |-> 0, num |-> 0, capacity |-> initial, initial |-> initial,
     index |-> -1, room |-> initial, rc |-> 0]

\* a return before the loop
LoopNotEntered(fn, rc) == [LoopFrame(fn, 0) EXCEPT !.rc = rc]

MayStore(fr) == fr.capacity < Doubled(fr.initial, MaxGrowths)

MaySkip(fr) == fr.read - fr.num < MaxSkipped

\* the array grown only once the count has passed the capacity
MustGrowLate(num, cap) == num > cap

\* "if (num == capacity)" after the increment
MustGrow(num, cap) == num = cap

\* a continue that leaves the entry to be read again
SkipRetries(fr) == [fr EXCEPT !.index = -1]

\* an iteration that leaves by continue
Skip(fr) == [fr EXCEPT !.read = fr.read + 1, !.index = -1]

\* an iteration that stores at array[num], increments num and grows the
\* array when MustGrow; rc = -1 when the realloc fails
Store(fr, realloc_ok) ==
    [fr EXCEPT !.read = fr.read + 1,
               !.index = fr.num,
               !.room = fr.capacity,
               !.num = fr.num + 1,
               !.capacity = IF MustGrow(fr.num + 1, fr.capacity)
                            THEN fr.capacity * 2 ELSE fr.capacity,
               !.rc = IF MustGrow(fr.num + 1, fr.capacity) /\ ~realloc_ok
                      THEN -1 ELSE 0]

\* opendir and the malloc of the initial array
OpenLoop(fn, initial) ==
    /\ f_pc = "call"
    /\ f_in.fn = fn
    /\ \E opens, malloc_ok \in BOOLEAN :
         IF opens /\ malloc_ok
         THEN f_pc' = "loop" /\ f_out' = LoopFrame(fn, initial)
         ELSE f_pc' = "done" /\ f_out' = LoopNotEntered(fn, -1)
    /\ UNCHANGED <<callVars, parseVars, f_in>>

\* one iteration on the next entry, stored or not
IterateLoop(fn, stored) ==
    /\ f_pc = "loop"
    /\ f_in.fn = fn
    /\ IF stored
       THEN /\ MayStore(f_out)
            /\ \E realloc_ok \in BOOLEAN :
                 \E fr \in {Store(f_out, realloc_ok)} :
                   /\ f_out' = fr
                   /\ f_pc' = IF fr.rc = -1 THEN "done" ELSE "loop"
       ELSE /\ MaySkip(f_out)
            /\ f_out' = Skip(f_out)
            /\ f_pc' = "loop"
    /\ UNCHANGED <<callVars, parseVars, f_in>>

\* readdir or fgets returned NULL: the loop is left and the call returns 0
EndLoop(fn) ==
    /\ f_pc = "loop"
    /\ f_in.fn = fn
    /\ f_pc' = "done"
    /\ f_out' = [f_out EXCEPT !.index = -1]
    /\ UNCHANGED <<callVars, parseVars, f_in>>

\* proc_fd.c:234-255
FdsOpen == OpenLoop("enumerate_fds", INITIAL_FD_CAPACITY)

\* proc_fd.c:258-290: an entry is stored when its name is numeric and
\* readlink finds it
FdsIteration ==
    \E name \in { <<".">>, <<"3">> }, resolves \in BOOLEAN :
        IterateLoop("enumerate_fds", is_numeric(name) /\ resolves)

\* proc_fd.c:292-312
FdsEnd == EndLoop("enumerate_fds")

\* net.c:203-233: no target inodes or an empty file return 0 before the loop
NetOpen ==
    /\ f_pc = "call"
    /\ f_in.fn = "parse_net_file"
    /\ \E targets, opens, malloc_ok, header \in BOOLEAN :
         IF ~targets THEN f_pc' = "done" /\ f_out' = LoopNotEntered(f_in.fn, 0)
         ELSE IF ~(opens /\ malloc_ok)
         THEN f_pc' = "done" /\ f_out' = LoopNotEntered(f_in.fn, -1)
         ELSE IF ~header THEN f_pc' = "done" /\ f_out' = LoopNotEntered(f_in.fn, 0)
         ELSE f_pc' = "loop" /\ f_out' = LoopFrame(f_in.fn, INITIAL_SOCKET_CAPACITY)
    /\ UNCHANGED <<callVars, parseVars, f_in>>

\* net.c:236-293: a line is stored when it parses, its inode is a target
\* (here 5) and both of its addresses decode
NetIteration ==
    \E line \in {RowTcp5, RowTcp9, ShortLine, RowBadAddr}, junk \in JunkValues :
        IterateLoop("parse_net_file", ParseLine(line, TRUE, <<5>>, 1, junk) # <<>>)

\* net.c:295-313
NetEnd == EndLoop("parse_net_file")

\* proc_task.c:136-160
ThreadsOpen == OpenLoop("enumerate_threads", INITIAL_THREAD_CAPACITY)

\* proc_task.c:162-190: an entry is stored when its name is numeric
ThreadsIteration ==
    \E name \in { <<".">>, <<"1", "0">> } :
        IterateLoop("enumerate_threads", is_numeric(name))

\* proc_task.c:192-211
ThreadsEnd == EndLoop("enumerate_threads")

InitLoops ==
    /\ dirStatus = "ok"
    /\ dirEntries = <<>>
    /\ tcpFile = [openable |-> FALSE, lines |-> <<>>]
    /\ udpFile = [openable |-> FALSE, lines |-> <<>>]
    /\ CallIdle("none")
    /\ ParseIdle
    /\ f_pc = "call"
    /\ \E fn \in {"enumerate_fds", "parse_net_file", "enumerate_threads"} :
         f_in = [fn |-> fn]
    /\ f_out = [fn |-> "none"]

NextLoops ==
    \/ FdsOpen \/ FdsIteration \/ FdsEnd
    \/ NetOpen \/ NetIteration \/ NetEnd
    \/ ThreadsOpen \/ ThreadsIteration \/ ThreadsEnd

SpecLoops == InitLoops /\ [][NextLoops]_vars

(***************************************************************************)
(* The calls together: find_process_sockets with enumerate_fds inside it   *)
(* (Init, Next) and the three loops on long inputs (InitLoops, NextLoops). *)
(* The program is sequential: a call that has begun keeps running as long  *)
(* as it has a step to take.                                               *)
(***************************************************************************)
InitCalls == Init \/ InitLoops

NextCalls == Next \/ NextLoops

SpecCalls == InitCalls /\ [][NextCalls]_vars /\ WF_vars(NextCalls)

(***************************************************************************)
(* What the properties speak of.                                           *)
(***************************************************************************)
\* the inode of each well-formed row of the tables above
RowInode(line) ==
    IF line \in {RowTcp5, RowTcp5b} THEN 5
    ELSE IF line \in {RowTcp7, RowUdp7} THEN 7
    ELSE 9

AllRows == WellFormedRows \cup {RowUdp7, RowUdp9}

\* the inodes of the well-formed rows after the header of a table
TableInodes(file) ==
    { RowInode(file.lines[i]) : i \in { j \in 2..Len(file.lines) : file.lines[j] \in AllRows } }

\* find_process_sockets has returned
Returned == pc = "done"

\* the descriptor entries enumerate_fds produced in this call
Enumerated == e_entries.elems

\* the inodes of the socket descriptors among them
EnumeratedSocketInodes ==
    { Enumerated[i].socket_inode : i \in { j \in 1..Len(Enumerated) : Enumerated[j].is_socket } }

\* enumerate_fds succeeded and the call has returned
Inspected == Returned /\ e_rc = 0

\* the connections of the process: the inodes its descriptors share with a table
Connections == EnumeratedSocketInodes \cap (TableInodes(tcpFile) \cup TableInodes(udpFile))

ResultInodes == { sockets.elems[i].inode : i \in 1..Len(sockets.elems) }

TableOpens == { i \in 1..Len(io) : io[i] \in {"fopen_tcp", "fopen_udp"} }

\* C1: a descriptor socket:[N] and a well-formed row with inode N in a table
\* give a successful call whose list has a record for the row, count >= 1
\* (both tables can be opened and no allocation fails)
C1_InnerJoin ==
    (Inspected /\ ~alloc_failed /\ tcpFile.openable /\ udpFile.openable)
        => \A n \in Connections :
             /\ ret = 0
             /\ count.kind = "int" /\ count.val >= 1
             /\ n \in ResultInodes

\* C2: a process with no network connections gets 0, *count = 0 and
\* *sockets = NULL, whatever its non-socket descriptors
C2_NoConnectionsIsEmptySuccess ==
    (Inspected /\ Connections = {})
        => (ret = 0 /\ count = Int32(0) /\ sockets = NULL)

C2_Witness ==
    /\ Inspected /\ Connections = {}
    /\ Len(Enumerated) >= 2
    /\ EnumeratedSocketInodes = {}
    /\ ret = 0

\* C4: when /proc/<pid>/fd does not exist the call returns -1 with errno
\* ENOENT, never success
C4_NonexistentPidFails ==
    (Returned /\ dirStatus = "ENOENT") => (ret = -1 /\ errno = "ENOENT")

C4_Witness == Returned /\ dirStatus = "ENOENT" /\ ret = -1

\* C5: whenever the call returns -1, *sockets is NULL and *count is 0
C5_FailureClearsOutputs ==
    (Returned /\ ret = -1) => (sockets = NULL /\ count = Int32(0))

C5_Witness == Returned /\ ret = -1 /\ alloc_failed /\ dirStatus = "ok"

\* C6: a process with sockets, a TCP table that can be read and a UDP table
\* that cannot be opened: the call reports failure
C6_UdpFailureReported ==
    (Inspected /\ EnumeratedSocketInodes # {} /\ tcpFile.openable /\ ~udpFile.openable)
        => ret = -1

\* what a table reader produces for the enumerated socket inodes, with the
\* fields the merge copies
ReaderRecords(file, is_tcp) ==
    LET inodes == ExtractInodes(Enumerated, 1, Len(Enumerated))
        r == parse_net_file(file, is_tcp, Heap(inodes), Len(inodes), {},
                            CHOOSE j \in JunkValues : TRUE)
    IN  [i \in 1..Len(r.results.elems) |->
           [is_tcp |-> is_tcp, inode |-> r.results.elems[i].inode,
            local_port |-> r.results.elems[i].local_port]]

\* C7: the list is the TCP reader's records, in its order, followed by the
\* UDP reader's records, in its order, none lost
C7_TcpThenUdpInOrder ==
    (Inspected /\ ret = 0 /\ tcpFile.openable /\ udpFile.openable)
        => [i \in 1..Len(sockets.elems) |->
              [is_tcp |-> sockets.elems[i].is_tcp, inode |-> sockets.elems[i].inode,
               local_port |-> sockets.elems[i].local_port]]
           = ReaderRecords(tcpFile, TRUE) \o ReaderRecords(udpFile, FALSE)

\* C8: no socket among the enumerated descriptors: success, an empty result,
\* and neither table opened
C8_NoSocketNoTableOpened ==
    (Inspected /\ EnumeratedSocketInodes = {})
        => (ret = 0 /\ sockets = NULL /\ count = Int32(0) /\ TableOpens = {})

C8_Witness ==
    /\ Inspected /\ EnumeratedSocketInodes = {}
    /\ Len(Enumerated) >= 1
    /\ tcpFile.openable /\ Len(tcpFile.lines) >= 2
    /\ TableOpens = {}

\* C9: in a call that succeeds for a process with sockets the directory is
\* read to its end (closedir), then the TCP table is opened, then the UDP
\* table, and nothing of the directory is read after a table was opened
C9_DirectoryThenTcpThenUdp ==
    (Inspected /\ ret = 0 /\ EnumeratedSocketInodes # {})
        => /\ Len(io) >= 3
           /\ io[Len(io) - 2] = "closedir"
           /\ io[Len(io) - 1] = "fopen_tcp"
           /\ io[Len(io)] = "fopen_udp"
           /\ \A i \in 1..(Len(io) - 2) : io[i] \notin {"fopen_tcp", "fopen_udp"}

(***************************************************************************)
(* parse_net_file on its own                                               *)
(***************************************************************************)
Parsed == p_pc = "done"

\* the rows after the header
FileRows == SubSeq(p_file.lines, 2, Len(p_file.lines))

TargetInodes == { p_targets.elems[i] : i \in 1..Len(p_targets.elems) }

\* the inodes, in file order, of the rows whose inode is a target
RECURSIVE MatchingInodes(_)
MatchingInodes(rows) ==
    IF rows = <<>> THEN <<>>
    ELSE IF RowInode(Head(rows)) \in TargetInodes
         THEN <<RowInode(Head(rows))>> \o MatchingInodes(Tail(rows))
         ELSE MatchingInodes(Tail(rows))

\* a header followed by well-formed rows only, a non-empty target set, no
\* allocation failing
WellFormedParse ==
    /\ Parsed
    /\ p_file.openable /\ Len(p_file.lines) >= 1
    /\ \A i \in 1..Len(FileRows) : FileRows[i] \in WellFormedRows
    /\ TargetInodes # {}
    /\ p_oom = {}

\* C10: N well-formed rows of which M carry a target inode give success,
\* exactly M records in file order, and a reported count of M
C10_ExactlyTheMatchingRows ==
    WellFormedParse
        => /\ p_result.rc = 0
           /\ [i \in 1..Len(p_result.results.elems) |-> p_result.results.elems[i].inode]
                = MatchingInodes(FileRows)
           /\ p_result.result_count = Len(MatchingInodes(FileRows))

\* the rows after the header that are well formed, in file order
GoodRows == SelectSeq(FileRows, LAMBDA l : l \in WellFormedRows)

\* a file with a header and at least one line that does not parse, read for
\* a non-empty target set with no allocation failing
MalformedParse ==
    /\ Parsed
    /\ p_file.openable /\ Len(p_file.lines) >= 1
    /\ \E i \in 1..Len(FileRows) : FileRows[i] \in MalformedLines
    /\ TargetInodes # {}
    /\ p_oom = {}

\* C11: a line with too few fields or an address token that does not decode
\* is omitted and nothing else: the read succeeds and the records are those
\* of the matching well-formed lines before and after it, in file order
C11_MalformedLineSkipped ==
    MalformedParse
        => /\ p_result.rc = 0
           /\ [i \in 1..Len(p_result.results.elems) |-> p_result.results.elems[i].inode]
                = MatchingInodes(GoodRows)

C11_Witness ==
    /\ MalformedParse
    /\ Len(FileRows) = 3
    /\ FileRows[1] = RowTcp5
    /\ FileRows[2] = RowBadAddr
    /\ FileRows[3] = RowTcp5b
    /\ 5 \in TargetInodes
    /\ Len(p_result.results.elems) = 2

\* C12: with a NULL or empty target set parse_net_file returns 0 with
\* *results = NULL and *result_count = 0 and does not open the file, whether
\* or not the path can be opened
C12_EmptyTargetSetOpensNothing ==
    (Parsed /\ TargetInodes = {})
        => /\ p_result.rc = 0
           /\ p_result.results = NULL
           /\ p_result.result_count = 0
           /\ ~p_result.opened

C12_Witness ==
    /\ Parsed
    /\ p_targets = Heap(<<>>)
    /\ ~p_file.openable
    /\ p_result.rc = 0

(***************************************************************************)
(* parse_socket_inode on its own                                           *)
(***************************************************************************)
SocketInodeCalled == f_pc \in {"done", "fault"} /\ f_in.fn = "parse_socket_inode"

SocketHead == <<"s", "o", "c", "k", "e", "t", ":", "[">>

\* socket:[ then one or more decimal digits then ] and nothing else
ExactSocketForm(t) ==
    /\ Len(t) >= Len(SocketHead) + 2
    /\ SubSeq(t, 1, Len(SocketHead)) = SocketHead
    /\ t[Len(t)] = "]"
    /\ \A i \in (Len(SocketHead) + 1)..(Len(t) - 1) : IsDigit(t[i])

\* the decimal value between the brackets of a target of that form
RECURSIVE DecimalValue(_, _, _)
DecimalValue(t, i, acc) ==
    IF i >= Len(t) THEN acc
    ELSE DecimalValue(t, i + 1,
                      acc * 10 + (CHOOSE v \in 0..9 : ToString(v) = t[i]))

\* C13: a target is classified as a socket exactly when it is socket:[digits]
\* with nothing before or after; the inode is then the decimal value, and
\* otherwise is_socket is false and socket_inode is 0
C13_SocketIffExactForm ==
    (SocketInodeCalled /\ ~f_in.target.null /\ f_pc = "done")
        => LET t == f_in.target.chars
           IN  /\ f_out.returned <=> ExactSocketForm(t)
               /\ f_out.entry.is_socket <=> ExactSocketForm(t)
               /\ ExactSocketForm(t)
                    => /\ f_out.inode = DecimalValue(t, Len(SocketHead) + 1, 0)
                       /\ f_out.entry.socket_inode = f_out.inode
               /\ ~ExactSocketForm(t) => f_out.entry.socket_inode = 0

\* C14: with a NULL target parse_socket_inode returns false, does not fault
\* and leaves *inode as it was
C14_NullTargetReturnsFalse ==
    (SocketInodeCalled /\ f_in.target.null)
        => /\ f_pc = "done"
           /\ f_out.returned = FALSE
           /\ f_out.inode = f_in.inode

(***************************************************************************)
(* enumerate_fds on its own                                                *)
(***************************************************************************)
EnumReturned == pc = "correlate"

\* a name made of decimal digits only
AllDigits(name) ==
    /\ name # <<>>
    /\ \A i \in 1..Len(name) : name[i] \in {"0", "1", "2", "3", "4", "5", "6", "7", "8", "9"}

\* the positions of the directory listing whose name is a number and whose
\* symlink still resolved when it was read
Resolved == { i \in 1..Len(dirEntries) : AllDigits(dirEntries[i].name) /\ i \notin unresolved }

\* the descriptor number and target of a listed entry with a one-digit name
Listed(i) ==
    [fd |-> CHOOSE v \in 0..9 : <<ToString(v)>> = dirEntries[i].name,
     target |-> dirEntries[i].target]

\* the entries of positions i.. that are Resolved, in the order of the listing
RECURSIVE ResolvedFrom(_)
ResolvedFrom(i) ==
    IF i > Len(dirEntries) THEN <<>>
    ELSE IF i \in Resolved THEN <<Listed(i)>> \o ResolvedFrom(i + 1)
    ELSE ResolvedFrom(i + 1)

\* the descriptor numbers and targets of the entries returned
Returned_fds ==
    [k \in 1..Len(e_entries.elems) |->
       [fd |-> e_entries.elems[k].fd, target |-> e_entries.elems[k].target]]

\* C15: a descriptor that closed between readdir and readlink is left out and
\* nothing else happens: the call succeeds and every listed numeric descriptor
\* that resolved is in the result
C15_ClosedDescriptorSkipped ==
    (EnumReturned /\ dirStatus = "ok" /\ ~alloc_failed /\ unresolved # {})
        => /\ e_rc = 0
           /\ \A i \in unresolved :
                \A k \in 1..Len(Returned_fds) : Returned_fds[k] # Listed(i)
           /\ \A i \in Resolved :
                \E k \in 1..Len(Returned_fds) : Returned_fds[k] = Listed(i)

C15_Witness ==
    /\ EnumReturned /\ e_rc = 0
    /\ Len(dirEntries) = 3
    /\ unresolved = {2}
    /\ Len(e_entries.elems) = 2

C17_OneEntryPerNumericName ==
    (EnumReturned /\ e_rc = 0)
        => /\ Returned_fds = ResolvedFrom(1)
           /\ e_count = Int32(Len(ResolvedFrom(1)))

C17_Witness ==
    /\ EnumReturned /\ e_rc = 0
    /\ Len(dirEntries) = 3
    /\ dirEntries[1].name = <<"7">>
    /\ dirEntries[2].name = <<"1", "a">>
    /\ dirEntries[3].name = <<"3">>
    /\ Len(e_entries.elems) = 2

(***************************************************************************)
(* enumerate_threads on its own                                            *)
(***************************************************************************)
ThreadsReturned == f_pc = "done" /\ f_in.fn = "enumerate_threads"

\* the numeric entries of the task listing
ListedThreads == { i \in 1..Len(f_in.tasks) : AllDigits(f_in.tasks[i].name) }

\* the thread id a two-digit name denotes
Tid(i) == CHOOSE v \in 10..99 : <<ToString(v \div 10), ToString(v % 10)>> = f_in.tasks[i].name

ReturnedThreads == { f_out.threads.elems[k] : k \in 1..Len(f_out.threads.elems) }

\* a call that opened the task directory, met no allocation failure and saw
\* a listed thread exit before its detail files were read
ThreadExited ==
    /\ ThreadsReturned
    /\ f_in.dir_status = "ok"
    /\ ~f_out.oom
    /\ f_out.exited # {}

RECURSIVE Decimal(_)
Decimal(n) ==
    IF n < 10 THEN <<ToString(n)>> ELSE Decimal(n \div 10) \o <<ToString(n % 10)>>

\* a.b.c.d:p
Dotted(a, b, c, d, p) ==
    Decimal(a) \o <<".">> \o Decimal(b) \o <<".">> \o Decimal(c) \o <<".">> \o Decimal(d)
    \o <<":">> \o Decimal(p)

\* the string in a buffer: the bytes before the first terminator
CString(bytes) ==
    IF \E i \in 1..Len(bytes) : bytes[i] = "\\0"
    THEN SubSeq(bytes, 1, (CHOOSE i \in 1..Len(bytes) :
                             /\ bytes[i] = "\\0"
                             /\ \A j \in 1..(i - 1) : bytes[j] # "\\0") - 1)
    ELSE bytes

String_127_0_0_1_8080 ==
    <<"1", "2", "7", ".", "0", ".", "0", ".", "1", ":", "8", "0", "8", "0">>

Decoded == f_pc = "done" /\ f_in.fn = "parse_hex_addr"

\* C19: decoding the table token of the address a.b.c.d and the port p and
\* formatting what was decoded gives a.b.c.d:p
C19_DecodeThenEncode ==
    Decoded
        => /\ f_out.rc = 0
           /\ CString(f_out.buf.bytes)
                = Dotted(f_in.wire[1], f_in.wire[2], f_in.wire[3], f_in.wire[4], f_in.port)

Formatted == f_pc = "done" /\ f_in.fn = "format_ip_port"

\* C20: format_ip_port on the address whose bytes in network order are
\* a, b, c, d and the port p writes a.b.c.d:p when the buffer is large
\* enough, and for any buflen >= 1 writes at most buflen bytes, the last of
\* them the terminator
C20_FormatIpPort ==
    (Formatted /\ ~f_in.buf.null /\ f_in.buflen >= 1)
        => LET w == f_in.addr
               expected == Dotted(w[4], w[3], w[2], w[1], f_in.port)
               written == f_out.buf.bytes
           IN  /\ Len(expected) < f_in.buflen => CString(written) = expected
               /\ Len(written) >= 1
               /\ Len(written) <= f_in.buflen
               /\ written[Len(written)] = "\\0"
               /\ \A i \in 1..Len(CString(written)) : CString(written)[i] = expected[i]

C20_Witness ==
    /\ Formatted
    /\ f_in.addr = <<1, 0, 0, 127>>
    /\ f_in.port = 8080
    /\ f_in.buflen = 32
    /\ CString(f_out.buf.bytes) = String_127_0_0_1_8080

HexAddrCalled == f_pc = "done" /\ f_in.fn = "parse_hex_addr"

\* eight hex digits, a colon, four hex digits, and nothing else
WellFormedToken(h) ==
    /\ ~h.null
    /\ Len(h.chars) = 13
    /\ \A i \in 1..8 : IsHexDigit(h.chars[i])
    /\ h.chars[9] = ":"
    /\ \A i \in 10..13 : IsHexDigit(h.chars[i])

\* C21: parse_hex_addr returns -1 and leaves *ip and *port as they were on
\* every input that is not eight hex digits, a colon and four hex digits:
\* NULL, a missing field or colon, a character that is no hex digit
\* (trailing ones included), a field of another length
C21_MalformedTokenIsFormatError ==
    (HexAddrCalled /\ ~WellFormedToken(f_in.hex))
        => /\ f_out.rc = -1
           /\ f_out.ip = f_in.ip
           /\ f_out.port = f_in.port

\* C22: when format_ip_port cannot format (buf NULL or buflen 0) it comes
\* back without a fault, and a buffer that is not NULL holds the
\* placeholder "?" afterwards
C22_PlaceholderWhenNotFormatted ==
    (Formatted /\ (f_in.buf.null \/ f_in.buflen = 0))
        => \/ f_in.buf.null /\ f_out.buf = f_in.buf
           \/ ~f_in.buf.null /\ CString(f_out.buf.bytes) = <<"?">>

\* the label the claim gives each of the eleven constants of tcp_state_t
StateLabels ==
    [TCP_ESTABLISHED |-> "ESTABLISHED", TCP_SYN_SENT |-> "SYN_SENT",
     TCP_SYN_RECV |-> "SYN_RECV", TCP_FIN_WAIT1 |-> "FIN_WAIT1",
     TCP_FIN_WAIT2 |-> "FIN_WAIT2", TCP_TIME_WAIT |-> "TIME_WAIT",
     TCP_CLOSE |-> "CLOSE", TCP_CLOSE_WAIT |-> "CLOSE_WAIT",
     TCP_LAST_ACK |-> "LAST_ACK", TCP_LISTEN |-> "LISTEN", TCP_CLOSING |-> "CLOSING"]

StateNamed == f_pc = "done" /\ f_in.fn = "tcp_state_to_string"

\* C23: tcp_state_to_string gives each of the eleven state codes its own
\* label, pairwise different, and every other value the label UNKNOWN,
\* which is none of the eleven
C23_StateLabels ==
    /\ DOMAIN StateLabels = DOMAIN tcp_state_t
    /\ Cardinality({ StateLabels[n] : n \in DOMAIN StateLabels } \cup {"UNKNOWN"}) = 12
    /\ StateNamed
         => /\ \A n \in DOMAIN tcp_state_t :
                 f_in.state = tcp_state_t[n] => f_out.returned = StateLabels[n]
            /\ (\A n \in DOMAIN tcp_state_t : f_in.state # tcp_state_t[n])
                 => f_out.returned = "UNKNOWN"

C23_Witness ==
    /\ StateNamed
    /\ f_in.state = 99
    /\ f_out.returned = "UNKNOWN"

PidParsed == f_pc = "done" /\ f_in.fn = "parse_pid"

\* a string of digits without its leading zeros
RECURSIVE StripZeros(_)
StripZeros(s) == IF s # <<>> /\ Head(s) = "0" THEN StripZeros(Tail(s)) ELSE s

\* PID_MAX of a 32-bit pid_t, 2^31 - 1, in digits
PidMaxDigits == <<2, 1, 4, 7, 4, 8, 3, 6, 4, 7>>

\* the digits d, as long as PidMaxDigits, denote at most that number
RECURSIVE AtMost(_, _)
AtMost(d, m) ==
    \/ d = <<>>
    \/ Head(d) < Head(m)
    \/ Head(d) = Head(m) /\ AtMost(Tail(d), Tail(m))

\* str is a string of decimal digits whose value is positive and fits pid_t
ValidPid(str) ==
    /\ ~str.null
    /\ str.chars # <<>>
    /\ \A i \in 1..Len(str.chars) : IsDigit(str.chars[i])
    /\ LET s == StripZeros(str.chars)
       IN  /\ s # <<>>
           /\ \/ Len(s) < Len(PidMaxDigits)
              \/ /\ Len(s) = Len(PidMaxDigits)
                 /\ AtMost([i \in 1..Len(s) |-> DigitVal(s[i])], PidMaxDigits)

\* C24: parse_pid returns the value of every string of decimal digits whose
\* value is positive and fits pid_t, and -1 for every other input: NULL,
\* the empty string, a string with a non-digit, zero, a value beyond pid_t
C24_ParsePid ==
    PidParsed
        => f_out.returned = IF ValidPid(f_in.str)
                            THEN ScanDigits(StripZeros(f_in.str.chars), 1, 0).val
                            ELSE -1

Exited == f_pc = "exit" /\ f_in.fn = "main"

\* an option argument names only options of the program
KnownOption(arg) ==
    IF arg[2] = "-" THEN SubSeq(arg, 3, Len(arg)) \in DOMAIN LongOptions
    ELSE \A i \in 2..Len(arg) : arg[i] \in {"v", "n", "h", "V"}

\* help or version is asked for
AsksHelp(argv) ==
    \E i \in 1..Len(argv) :
        /\ IsOption(argv[i])
        /\ \/ argv[i][2] = "-" /\ SubSeq(argv[i], 3, Len(argv[i]))
                 \in { <<"h", "e", "l", "p">>, <<"v", "e", "r", "s", "i", "o", "n">> }
           \/ argv[i][2] # "-" /\ \E j \in 2..Len(argv[i]) : argv[i][j] \in {"h", "V"}

\* the arguments are invalid: an unknown option, or, when neither help nor
\* the version is asked for, no PID or a PID that is not a positive pid_t
InvalidArguments(argv) ==
    \/ \E i \in 1..Len(argv) : IsOption(argv[i]) /\ ~KnownOption(argv[i])
    \/ /\ ~AsksHelp(argv)
       /\ \/ Operands(argv) = <<>>
          \/ ~ValidPid(CStr(Operands(argv)[1]))

\* C25: the exit code is 1 exactly when the arguments are invalid; with
\* valid arguments it is 2 when the status cannot be read because the
\* process does not exist, 3 when it cannot be read for another reason,
\* and 0 otherwise, whatever fails after the status was read
C25_ExitCodes ==
    Exited
        => f_out.exit = IF InvalidArguments(f_in.argv) THEN 1
                        ELSE IF AsksHelp(f_in.argv) \/ f_in.status = "0" THEN 0
                        ELSE IF f_in.status = "ENOENT" THEN 2
                        ELSE 3

InLoop == f_pc = "loop"

LoopReturned == f_pc = "done" /\ f_in.fn \in {"enumerate_fds", "parse_net_file", "enumerate_threads"}

\* C29: in the loops of enumerate_fds, parse_net_file and enumerate_threads
\* the capacity starts at 64, 16 and 32, is the initial one doubled some
\* times, exceeds the number of stored entries whenever the loop goes on,
\* and every write is at an index below the capacity of that moment
C29_WritesWithinCapacity ==
    (InLoop \/ LoopReturned)
        => /\ f_out.initial = (CASE f_in.fn = "enumerate_fds" -> 64
                                 [] f_in.fn = "parse_net_file" -> 16
                                 [] f_in.fn = "enumerate_threads" -> 32)
              \/ (~InLoop /\ f_out.initial = 0)
           /\ \E k \in 0..MaxGrowths : f_out.capacity = Doubled(f_out.initial, k)
           /\ InLoop => f_out.num < f_out.capacity
           /\ f_out.index # -1 => f_out.index >= 0 /\ f_out.index < f_out.room

\* the array of enumerate_fds has grown twice and the loop goes on writing
C29_Witness ==
    /\ InLoop
    /\ f_in.fn = "enumerate_fds"
    /\ f_out.capacity = 256
    /\ f_out.index = 127
    /\ f_out.room = 128

\* the loop has read one entry more, or has been left
Advances == f_pc' = "loop" => f_out'.read = f_out.read + 1

\* the readdir loop of enumerate_fds inside find_process_sockets has read
\* one entry more, or has been left
AdvancesInCall == pc' = "readdir" => dirpos' = dirpos + 1

\* C26: every call of find_process_sockets, enumerate_fds and
\* parse_net_file on a finite directory and finite tables returns, with
\* success or failure, whatever the entries are: each iteration of a loop
\* reads one entry more, none is read again, and the call reaches its return
C26_EveryCallReturns ==
    /\ [][InLoop => Advances]_vars
    /\ [][pc = "readdir" => AdvancesInCall]_vars
    /\ <>(Returned \/ LoopReturned)

\* a table whose lines are all malformed or of other sockets was read to
\* its end
C26_Witness ==
    /\ LoopReturned
    /\ f_in.fn = "parse_net_file"
    /\ f_out.rc = 0
    /\ f_out.read = MaxSkipped
    /\ f_out.num = 0

\* C27: on every successful return of parse_net_file the reported count is
\* the number of records in the returned array, and the array pointer is
\* NULL exactly when the count is 0, so that indices 0..count-1 are all
\* inside the array
C27_CountMatchesArray ==
    (Parsed /\ p_result.rc = 0)
        => /\ p_result.result_count = Len(p_result.results.elems)
           /\ (p_result.results = NULL) <=> (p_result.result_count = 0)

\* the rows, in file order, whose inode is a target
MatchingRows(rows) == SelectSeq(rows, LAMBDA l : RowInode(l) \in TargetInodes)

\* the columns of a table row, as text
RowFields(line) == sscanf(line, NetLineFormat).vals

\* the record r carries the fields of the row with the columns f
CarriesRow(r, f) ==
    /\ r.is_tcp = p_is_tcp
    /\ r.local_addr = parse_hex_addr(f["local_addr"]).ip
    /\ r.local_port = parse_hex_addr(f["local_addr"]).port
    /\ r.remote_addr = parse_hex_addr(f["remote_addr"]).ip
    /\ r.remote_port = parse_hex_addr(f["remote_addr"]).port
    /\ r.state = HexNum(f["state"], 0)
    /\ r.inode = f["inode"]

\* C28: each record parse_net_file produces carries the fields of the row
\* it came from: the caller's protocol tag, the decoded local and remote
\* address and port, the state code and the inode of that row
C28_RecordCarriesRow ==
    WellFormedParse
        => /\ Len(p_result.results.elems) = Len(MatchingRows(FileRows))
           /\ \A i \in 1..Len(p_result.results.elems) :
                CarriesRow(p_result.results.elems[i], RowFields(MatchingRows(FileRows)[i]))

Buffers == {"fds", "socket_inodes", "tcp_results", "udp_results", "merged"}

\* how often the buffer was allocated, and how often freed
Allocs(buffer) == Cardinality({ i \in 1..Len(mem) : mem[i] = <<"malloc", buffer>> })

Frees(buffer) == Cardinality({ i \in 1..Len(mem) : mem[i] = <<"free", buffer>> })

\* the buffer is the array handed to the caller
HandedOver(buffer) == buffer = "merged" /\ ret = 0 /\ sockets # NULL

=============================================================================
